---- MODULE Spec2Model ----
(***************************************************************************)
(* Model of the serial bootloader (boot.c V1.0.0, boot_com.c): the upgrade *)
(* state machine, the message handlers, the image validation pipeline and  *)
(* the shared-memory handoff region.                                       *)
(*                                                                         *)
(* One action is one call of boot_init() or of boot_hndl() (at most one    *)
(* dispatched frame followed by fsm_hndl()).  The only suspension points   *)
(* inside a handler are the two boot_wait() loops, which pump boot_hndl(); *)
(* they are modelled by a stack of open waits (wait).                      *)
(***************************************************************************)
EXTENDS Integers, Sequences, FiniteSets, TLC

VARIABLES
    pc,             \* "reset" (before boot_init), "run" (loader running), "app" (jumped)
    cfg,            \* build configuration (boot_cfg.h feature switches)
    flash,          \* non-volatile memory content
    shm,            \* g_boot_shared_mem
    fsm,            \* g_boot_fsm: [cur, next, first_entry]
    try_to_leave,   \* static flag of boot_fsm_idle_hndl
    flashing,       \* g_boot_flashing
    wait,           \* stack of open boot_wait() loops, innermost last
    tx,             \* response frames sent by the last step
    last,           \* what the last step was (request dispatched, state before it, ...)
    sessions,       \* number of upgrade sessions the host has opened
    jumped,         \* the place the loader jumped from ("none" while in the loader)
    parser,         \* g_parser of boot_com.c and the bytes waiting in the receive driver
    stalled,        \* the host has stopped sending
    resets          \* number of resets so far

vars == <<pc, cfg, flash, shm, fsm, try_to_leave, flashing, wait, tx, last, sessions, jumped,
          parser, stalled, resets>>

-----------------------------------------------------------------------------
(* Bounds of the model *)

\* number of payload bytes of the application region that the model tracks
MaxApp == 3
\* deepest nesting of boot_wait() loops that is explored
MaxNest == 1
\* most boot_hndl() calls one boot_wait() loop makes
MaxPump == 2
\* most upgrade sessions (CONNECT accepted in IDLE) the host opens
MaxSessions == 1
\* most resets in a run, the first one included
MaxResets == 7

-----------------------------------------------------------------------------
(* Program constants *)

BOOT_CFG_APP_HEAD_ADDR == 134283264
HEADER_SIZE == 256
FLASH_PAGE_SIZE == 2048
BOOT_CFG_APP_SIZE_MAX == 456704
BOOT_CFG_WAIT_AT_STARTUP_MS == 100
BOOT_CFG_PREPARE_IDLE_TIMEOUT_MS == 5000
BOOT_CFG_FLASH_IDLE_TIMEOUT_MS == 100
BOOT_CFG_EXIT_IDLE_TIMEOUT_MS == 5000
BOOT_CFG_JUMP_TO_APP_TIMEOUT_MS == 60000
BOOT_CFG_BOOT_CNT_LIMIT == 5
BOOT_CFG_DATA_PAYLOAD_SIZE == 1024
BOOT_SHARED_MEM_VER == 1
UINT8_MAX == 255

\* limits assembled from BOOT_CFG_FW_VER_* (0.1.2.3) and BOOT_CFG_HW_VER_* (1.0.0.0)
FW_VER_LIM == 66051
HW_VER_LIM == 16777216

\* version_get_sw().U of the loader itself
BOOT_SW_VER == 16777216

CRC8_POLY == 7
CRC8_SEED == 182
\* 0x04C11DB7 and 0x10101010 as 16-bit halves (TLC integers are 32-bit signed)
CRC32_POLY_HI == 1217
CRC32_POLY_LO == 7607
CRC32_SEED_HI == 4112
CRC32_SEED_LO == 4112

\* boot_msg_status_t
eBOOT_MSG_OK == 0
eBOOT_MSG_ERROR_VALIDATION == 1
eBOOT_MSG_ERROR_INVALID_REQ == 2
eBOOT_MSG_ERROR_FLASH_WRITE == 4
eBOOT_MSG_ERROR_FLASH_ERASE == 8
eBOOT_MSG_ERROR_FW_SIZE == 16
eBOOT_MSG_ERROR_FW_VER == 32
eBOOT_MSG_ERROR_HW_VER == 64
eBOOT_MSG_ERROR_SIGNATURE == 128

\* boot_status_t
eBOOT_OK == 0
eBOOT_ERROR == 1
eBOOT_ERROR_CRC == 4

\* boot_reason_t
eBOOT_REASON_NONE == 0
eBOOT_REASON_COM == 1

\* image header enumerations (revision module)
eVER_IMAGE_TYPE_APP == 0
eVER_SIG_TYPE_NONE == 0
eVER_SIG_TYPE_ECSDA == 1

\* boot_state_t
States == {"IDLE", "PREPARE", "FLASH", "EXIT"}

-----------------------------------------------------------------------------
(* Bit arithmetic on unsigned integers *)

RECURSIVE XorBits(_, _, _)
XorBits(a, b, n) ==
    IF n = 0 THEN 0
    ELSE ((a + b) % 2) + 2 * XorBits(a \div 2, b \div 2, n - 1)

RECURSIVE OrBits(_, _, _)
OrBits(a, b, n) ==
    IF n = 0 THEN 0
    ELSE (IF a % 2 = 1 \/ b % 2 = 1 THEN 1 ELSE 0) + 2 * OrBits(a \div 2, b \div 2, n - 1)

Xor4Tab == [a \in 0..15 |-> [b \in 0..15 |-> XorBits(a, b, 4)]]

Xor8(a, b) == 16 * Xor4Tab[a \div 16][b \div 16] + Xor4Tab[a % 16][b % 16]

Xor16(a, b) == 256 * Xor8(a \div 256, b \div 256) + Xor8(a % 256, b % 256)

\* msg_status |= ...
Or8(a, b) == OrBits(a, b, 8)

HasBit(status, bit) == (status \div bit) % 2 = 1

\* little-endian bytes of a uint32_t field of a packed struct
LE32(v) == << v % 256, (v \div 256) % 256, (v \div 65536) % 256, (v \div 16777216) % 256 >>

-----------------------------------------------------------------------------
(* Integrity primitives *)

RECURSIVE Crc8Shift(_, _)
Crc8Shift(c, j) ==
    IF j = 0 THEN c
    ELSE Crc8Shift(IF c >= 128 THEN Xor8((2 * c) % 256, CRC8_POLY) ELSE (2 * c) % 256, j - 1)

\* the inner loop of boot_calc_crc for every value of crc8 ^ p_data[i]
Crc8Tab == [c \in 0..255 |-> Crc8Shift(c, 8)]

\* the outer loop of boot_calc_crc over p_data[lo..hi], entered with crc8
\* (the singleton sets make TLC evaluate each intermediate value once)
RECURSIVE Crc8From(_, _, _, _)
Crc8From(crc8, data, lo, hi) ==
    IF lo > hi THEN crc8
    ELSE IF lo = hi THEN Crc8Tab[Xor8(crc8, data[lo])]
    ELSE CHOOSE r \in { Crc8From(c, data, (lo + hi) \div 2 + 1, hi) :
                          c \in { Crc8From(crc8, data, lo, (lo + hi) \div 2) } } : TRUE

boot_calc_crc(data) ==
    CHOOSE r \in { Crc8From(CRC8_SEED, d, 1, Len(d)) : d \in { data } } : TRUE

\* a uint32_t is a pair <<high half, low half>>
RECURSIVE Crc32Shift(_, _)
Crc32Shift(c, j) ==
    IF j = 0 THEN c
    ELSE LET hi == (2 * c[1] + c[2] \div 32768) % 65536
             lo == (2 * c[2]) % 65536
         IN  Crc32Shift(IF c[1] >= 32768
                        THEN << Xor16(hi, CRC32_POLY_HI), Xor16(lo, CRC32_POLY_LO) >>
                        ELSE << hi, lo >>, j - 1)

\* the outer loop of boot_fw_image_check_crc over bytes lo..hi, entered with crc
RECURSIVE Crc32From(_, _, _, _)
Crc32From(crc, data, lo, hi) ==
    IF lo > hi THEN crc
    ELSE IF lo = hi THEN Crc32Shift(<< crc[1], Xor16(crc[2], data[lo]) >>, 32)
    ELSE CHOOSE r \in { Crc32From(c, data, (lo + hi) \div 2 + 1, hi) :
                          c \in { Crc32From(crc, data, lo, (lo + hi) \div 2) } } : TRUE

\* CRC-32 of boot_fw_image_check_crc over a byte sequence, as the four
\* little-endian bytes of the header field it is compared with
Crc32(data) ==
    CHOOSE r \in { << c[2] % 256, c[2] \div 256, c[1] % 256, c[1] \div 256 >> :
                     c \in { Crc32From(<< CRC32_SEED_HI, CRC32_SEED_LO >>, d, 1, Len(d)) :
                              d \in { data } } } : TRUE

\* value of a little-endian uint32_t field (below 2^31)
Val32(b) == b[1] + 256 * b[2] + 65536 * b[3] + 16777216 * b[4]

-----------------------------------------------------------------------------
(* Image header (ver_image_header_t) *)

\* SHA-256 and ECDSA are external primitives: a digest is the symbolic term
\* of its preimage, a signature the term of its signing key and digest.
cf_sha256(data) == [pre |-> data]

Sign(key, digest) == [key |-> key, digest |-> digest]

\* uECC_verify with the loader's public key: only the vendor key verifies
uECC_verify(hash, sig) == sig.key = "vendor" /\ sig.digest = hash

KeyByte(k) == CASE k = "vendor" -> 1 [] k = "forged" -> 2 [] OTHER -> 255

\* the bytes of the packed header after its first byte (ctrl.crc)
HeadBytes(h) ==
    << h.ver, h.image_type, h.sig_type >> \o h.image_addr \o h.image_size
        \o h.image_crc \o h.sw_ver \o h.hw_ver
        \o << KeyByte(h.signature.key) >> \o h.signature.digest.pre \o h.hash.pre

boot_app_head_calc_crc(h) == boot_calc_crc(HeadBytes(h))

boot_app_header_check(h) ==
    IF boot_app_head_calc_crc(h) # h.crc THEN eBOOT_ERROR_CRC ELSE eBOOT_OK

\* the header region after an erase: every byte 0xFF
ErasedHeader ==
    [ crc |-> 255, ver |-> 255, image_type |-> 255, sig_type |-> 255,
      image_addr |-> <<255, 255, 255, 255>>, image_size |-> <<255, 255, 255, 255>>,
      image_crc |-> <<255, 255, 255, 255>>, sw_ver |-> <<255, 255, 255, 255>>,
      hw_ver |-> <<255, 255, 255, 255>>,
      signature |-> Sign("blank", cf_sha256(<<255>>)), hash |-> cf_sha256(<<255>>) ]

-----------------------------------------------------------------------------
(* Flash: the image slot at BOOT_CFG_APP_HEAD_ADDR and a second slot at the  *)
(* other address a header may declare.  A slot is a header followed by      *)
(* MaxApp payload bytes.                                                    *)

ALT_HEAD_ADDR == BOOT_CFG_APP_HEAD_ADDR + 32 * FLASH_PAGE_SIZE

Slots == {"app", "alt"}

SlotBase(slot) == IF slot = "app" THEN BOOT_CFG_APP_HEAD_ADDR ELSE ALT_HEAD_ADDR

ErasedBytes == [i \in 1..MaxApp |-> 255]

ErasedSlot == [head |-> ErasedHeader, data |-> ErasedBytes]

\* boot_if_flash_read of the payload: size bytes starting behind the header
FlashReadData(fl, slot, size) == SubSeq(fl[slot].data, 1, size)

\* boot_if_flash_write of a header at addr
FlashWriteHead(fl, addr, h) ==
    [slot \in Slots |->
        IF addr = SlotBase(slot) THEN [fl[slot] EXCEPT !.head = h] ELSE fl[slot]]

\* boot_if_flash_write of payload bytes at addr
FlashWriteData(fl, addr, bytes) ==
    [slot \in Slots |->
        [fl[slot] EXCEPT !.data =
            [i \in 1..MaxApp |->
                LET k == SlotBase(slot) + HEADER_SIZE + (i - 1) - addr
                IN  IF k >= 0 /\ k < Len(bytes) THEN bytes[k + 1] ELSE @[i]]]]

\* boot_if_flash_erase of [addr, addr + size)
FlashErase(fl, addr, size) ==
    [slot \in Slots |->
        [ head |-> IF addr <= SlotBase(slot) /\ SlotBase(slot) + HEADER_SIZE <= addr + size
                   THEN ErasedHeader ELSE fl[slot].head,
          data |-> [i \in 1..MaxApp |->
                      LET a == SlotBase(slot) + HEADER_SIZE + (i - 1)
                      IN  IF addr <= a /\ a < addr + size THEN 255 ELSE fl[slot].data[i]] ]]

-----------------------------------------------------------------------------
(* Shared memory (boot_shared_mem_t, 32 bytes) *)

Zeros(n) == [i \in 1..n |-> 0]

\* the bytes of the packed region after its first byte (ctrl.crc)
ShmBytes(m) ==
    << m.ver >> \o Zeros(6) \o LE32(m.boot_ver) \o << m.boot_reason, m.boot_cnt >> \o Zeros(18)

boot_shared_mem_calc_crc(m) == boot_calc_crc(ShmBytes(m))

ShmValid(m) == m.crc = boot_shared_mem_calc_crc(m)

\* faulty variant of boot_shared_mem_set_boot_reason: the CRC of the region
\* is not recomputed (C27 detects it)
set_boot_reason_stale_crc(m, reason) == [m EXCEPT !.boot_reason = reason]

boot_shared_mem_set_boot_reason(m, reason) ==
    LET m1 == [m EXCEPT !.boot_reason = reason]
    IN  [m1 EXCEPT !.crc = boot_shared_mem_calc_crc(m1)]

\* faulty variant of boot_shared_mem_set_boot_cnt: the CRC of the region is
\* not recomputed (C9 detects it)
set_boot_cnt_stale_crc(m, cnt) == [m EXCEPT !.boot_cnt = cnt]

boot_shared_mem_set_boot_cnt(m, cnt) ==
    LET m1 == [m EXCEPT !.boot_cnt = cnt]
    IN  [m1 EXCEPT !.crc = boot_shared_mem_calc_crc(m1)]

\* the getters: <<status, *p_out after the call>>, p_out being the value the
\* caller's variable held before the call
boot_shared_mem_get_version(m, p_version) ==
    IF m.crc = boot_shared_mem_calc_crc(m)
    THEN << eBOOT_OK, m.ver >>
    ELSE << eBOOT_ERROR_CRC, p_version >>

boot_shared_mem_get_boot_reason(m, p_reason) ==
    IF m.crc = boot_shared_mem_calc_crc(m)
    THEN << eBOOT_OK, m.boot_reason >>
    ELSE << eBOOT_ERROR_CRC, p_reason >>

boot_shared_mem_get_boot_cnt(m, p_cnt) ==
    IF m.crc = boot_shared_mem_calc_crc(m)
    THEN << eBOOT_OK, m.boot_cnt >>
    ELSE << eBOOT_ERROR_CRC, p_cnt >>

boot_shared_mem_get_boot_ver(m, p_boot_ver) ==
    IF m.crc = boot_shared_mem_calc_crc(m)
    THEN << eBOOT_OK, m.boot_ver >>
    ELSE << eBOOT_ERROR_CRC, p_boot_ver >>

\* faulty variant of boot_init_shared_mem: the boot counter wraps around
\* (C14 detects it)
init_shared_mem_cnt_wraps(m) ==
    LET m1 == IF boot_shared_mem_calc_crc(m) = m.crc
              THEN [m EXCEPT !.boot_cnt = (@ + 1) % (UINT8_MAX + 1)]
              ELSE [m EXCEPT !.boot_cnt = 0, !.boot_reason = eBOOT_REASON_NONE]
        m2 == [m1 EXCEPT !.ver = BOOT_SHARED_MEM_VER, !.boot_ver = BOOT_SW_VER]
    IN  [m2 EXCEPT !.crc = boot_shared_mem_calc_crc(m2)]

\* faulty variant of boot_init_shared_mem: a corrupted region keeps its boot
\* reason (C15 detects it)
init_shared_mem_keeps_reason(m) ==
    LET m1 == IF boot_shared_mem_calc_crc(m) = m.crc
              THEN IF m.boot_cnt < UINT8_MAX THEN [m EXCEPT !.boot_cnt = @ + 1] ELSE m
              ELSE [m EXCEPT !.boot_cnt = 0]
        m2 == [m1 EXCEPT !.ver = BOOT_SHARED_MEM_VER, !.boot_ver = BOOT_SW_VER]
    IN  [m2 EXCEPT !.crc = boot_shared_mem_calc_crc(m2)]

boot_init_shared_mem(m) ==
    LET m1 == IF boot_shared_mem_calc_crc(m) = m.crc
              THEN IF m.boot_cnt < UINT8_MAX THEN [m EXCEPT !.boot_cnt = @ + 1] ELSE m
              ELSE [m EXCEPT !.boot_cnt = 0, !.boot_reason = eBOOT_REASON_NONE]
        m2 == [m1 EXCEPT !.ver = BOOT_SHARED_MEM_VER, !.boot_ver = BOOT_SW_VER]
    IN  [m2 EXCEPT !.crc = boot_shared_mem_calc_crc(m2)]

-----------------------------------------------------------------------------
(* Build configurations (boot_cfg.h) *)

\* the switches as shipped
CfgDefault ==
    [ FW_SIZE_CHECK_EN |-> TRUE, FW_VER_CHECK_EN |-> FALSE, FW_DOWNGRADE_EN |-> TRUE,
      HW_VER_CHECK_EN |-> FALSE, DIGITAL_SIGN_EN |-> FALSE, CRYPTION_EN |-> TRUE,
      APP_BOOT_CNT_CHECK_EN |-> FALSE ]

\* every optional check switched on
CfgStrict ==
    [ FW_SIZE_CHECK_EN |-> TRUE, FW_VER_CHECK_EN |-> TRUE, FW_DOWNGRADE_EN |-> TRUE,
      HW_VER_CHECK_EN |-> TRUE, DIGITAL_SIGN_EN |-> TRUE, CRYPTION_EN |-> FALSE,
      APP_BOOT_CNT_CHECK_EN |-> TRUE ]

CfgSet == {CfgDefault, CfgStrict}

-----------------------------------------------------------------------------
(* Machine state threaded through one handler.  A driver call that may     *)
(* fail and a clock reading have more than one outcome, so every operation *)
(* that reaches one yields the set of machine states it can end in.        *)

\* boot_flashing_t
FlashingZero == [working_addr |-> 0, flashed_bytes |-> 0, fw_size |-> 0]

boot_get_state(S) == S.fsm.cur

\* fsm_goto_state: the transition is requested, fsm_hndl performs it
fsm_goto_state(S, st) == [S EXCEPT !.fsm.next = st]

Send(S, cmd, status) == [S EXCEPT !.tx = Append(@, [cmd |-> cmd, status |-> status])]

\* boot_app_head_erase: boot_if_flash_erase succeeds or fails
boot_app_head_erase(S) ==
    { [S EXCEPT !.flash = FlashErase(@, BOOT_CFG_APP_HEAD_ADDR, HEADER_SIZE),
                !.erase = "ok", !.ret = eBOOT_OK],
      [S EXCEPT !.erase = "fail", !.ret = eBOOT_ERROR] }

\* boot_app_head_read: status of the header read from BOOT_CFG_APP_HEAD_ADDR
boot_app_head_read(fl) == boot_app_header_check(fl["app"].head)

\* faulty variant of boot_fw_image_check_crc: the CRC leaves out the last
\* byte of the image (C19 detects it)
image_crc_short_by_one(fl, h) ==
    IF Crc32(FlashReadData(fl, "app", Val32(h.image_size) - 1)) # h.image_crc
    THEN eBOOT_ERROR ELSE eBOOT_OK

boot_fw_image_check_crc(fl, h) ==
    IF Crc32(FlashReadData(fl, "app", Val32(h.image_size))) # h.image_crc
    THEN eBOOT_ERROR ELSE eBOOT_OK

boot_calc_hash(fl, size) == cf_sha256(FlashReadData(fl, "app", size))

boot_fw_image_check_sig(fl, h) ==
    IF ~uECC_verify(boot_calc_hash(fl, Val32(h.image_size)), h.signature)
    THEN eBOOT_ERROR ELSE eBOOT_OK

\* the check boot_fw_image_validate selects by the header's signature type;
\* an undefined type only hits BOOT_ASSERT(0), which is compiled out
ImageCheck(fl, h) ==
    IF h.sig_type = eVER_SIG_TYPE_ECSDA THEN boot_fw_image_check_sig(fl, h)
    ELSE IF h.sig_type = eVER_SIG_TYPE_NONE THEN boot_fw_image_check_crc(fl, h)
    ELSE eBOOT_OK

\* boot_fw_image_validate: result in ret; a header that is good over a bad
\* image is erased
boot_fw_image_validate(S) ==
    UNION { IF status = eBOOT_OK /\ ImageCheck(S.flash, S.flash["app"].head) # eBOOT_OK
            THEN { [E EXCEPT !.ret = eBOOT_ERROR] : E \in boot_app_head_erase(S) }
            ELSE { [S EXCEPT !.ret = status] } :
            status \in { boot_app_head_read(S.flash) } }

\* boot_start_application: jumps unless boot_if_deinit fails
boot_start_application(S, from) ==
    { [S EXCEPT !.jump = from], [S EXCEPT !.ret = eBOOT_ERROR] }

boot_fw_size_check(c, fw_size) ==
    IF c.FW_SIZE_CHECK_EN /\ fw_size > BOOT_CFG_APP_SIZE_MAX
    THEN eBOOT_MSG_ERROR_FW_SIZE ELSE eBOOT_MSG_OK

\* faulty variant of boot_fw_ver_check: the version the device already runs
\* is let through (C23 detects it)
fw_ver_check_allows_same(c, fl, fw_ver) ==
    IF ~c.FW_DOWNGRADE_EN /\ boot_app_head_read(fl) = eBOOT_OK
       /\ fw_ver < Val32(fl["app"].head.sw_ver)
    THEN eBOOT_MSG_ERROR_FW_VER
    ELSE IF c.FW_VER_CHECK_EN /\ fw_ver > FW_VER_LIM
    THEN eBOOT_MSG_ERROR_FW_VER ELSE eBOOT_MSG_OK

boot_fw_ver_check(c, fl, fw_ver) ==
    IF ~c.FW_DOWNGRADE_EN /\ boot_app_head_read(fl) = eBOOT_OK
       /\ fw_ver <= Val32(fl["app"].head.sw_ver)
    THEN eBOOT_MSG_ERROR_FW_VER
    ELSE IF c.FW_VER_CHECK_EN /\ fw_ver > FW_VER_LIM
    THEN eBOOT_MSG_ERROR_FW_VER ELSE eBOOT_MSG_OK

boot_hw_ver_check(c, hw_ver) ==
    IF c.HW_VER_CHECK_EN /\ hw_ver > HW_VER_LIM
    THEN eBOOT_MSG_ERROR_HW_VER ELSE eBOOT_MSG_OK

\* faulty variant of boot_signature_check: the signature is not verified
\* (C6 detects it)
signature_check_skipped(c, sig, hash) == eBOOT_MSG_OK

boot_signature_check(c, sig, hash) ==
    IF c.DIGITAL_SIGN_EN /\ ~uECC_verify(hash, sig)
    THEN eBOOT_MSG_ERROR_SIGNATURE ELSE eBOOT_MSG_OK

boot_pre_validate_image(c, fl, h) ==
    IF boot_app_header_check(h) = eBOOT_OK
    THEN IF eVER_IMAGE_TYPE_APP # h.image_type THEN eBOOT_MSG_ERROR_VALIDATION
         ELSE Or8(Or8(boot_fw_size_check(c, Val32(h.image_size)),
                      boot_fw_ver_check(c, fl, Val32(h.sw_ver))),
                  Or8(boot_hw_ver_check(c, Val32(h.hw_ver)),
                      boot_signature_check(c, h.signature, h.hash)))
    ELSE eBOOT_MSG_ERROR_VALIDATION

\* one pass of the erase loop of boot_prepare_flash: boot_if_flash_erase of
\* the page at addr_work fails, or it succeeds and the watchdog is kicked
ErasePage(S, addr_work) ==
    { [S EXCEPT !.ret = eBOOT_MSG_ERROR_FLASH_ERASE],
      [S EXCEPT !.flash = FlashErase(@, addr_work, FLASH_PAGE_SIZE),
                !.erased = Append(@, addr_work),
                !.wdt = @ + 1,
                !.ret = eBOOT_MSG_OK] }

\* the erase loop of boot_prepare_flash from addr_work on, entered with
\* msg_status OK; the passes are taken by halves, a failed pass ends the loop
RECURSIVE ErasePages(_, _, _)
ErasePages(S, addr_work, addr_end) ==
    IF ~(addr_work < addr_end) THEN { [S EXCEPT !.ret = eBOOT_MSG_OK] }
    ELSE IF ~(addr_work + FLASH_PAGE_SIZE < addr_end) THEN ErasePage(S, addr_work)
    ELSE LET passes == ((addr_end - addr_work) + (FLASH_PAGE_SIZE - 1)) \div FLASH_PAGE_SIZE
             addr_mid == addr_work + (passes \div 2) * FLASH_PAGE_SIZE
         IN  UNION { IF E.ret = eBOOT_MSG_OK THEN ErasePages(E, addr_mid, addr_end) ELSE { E } :
                     E \in ErasePages(S, addr_work, addr_mid) }

boot_prepare_flash(S, image_addr, image_size) ==
    ErasePages(S, image_addr, image_addr + ((image_size + HEADER_SIZE) - 1))

-----------------------------------------------------------------------------
(* Message reception callbacks (boot.c) *)

\* the stream cipher behind boot_if_decrypt_data is external; it is modelled
\* by a fixed key-stream byte
KEY_STREAM == 165

boot_if_decrypt_data(data) == [i \in 1..Len(data) |-> Xor8(data[i], KEY_STREAM)]

\* faulty variant of boot_com_connect_msg_rcv_cb: the boot reason is left alone
\* (C4 detects it)
connect_cb_keeps_reason(S) ==
    IF boot_get_state(S) = "IDLE"
    THEN { Send(fsm_goto_state(S, "PREPARE"), "CONNECT_RSP", eBOOT_MSG_OK) }
    ELSE { Send(fsm_goto_state(S, "IDLE"), "CONNECT_RSP", eBOOT_MSG_ERROR_INVALID_REQ) }

boot_com_connect_msg_rcv_cb(S) ==
    IF boot_get_state(S) = "IDLE"
    THEN { Send(fsm_goto_state(
                  [S EXCEPT !.shm = boot_shared_mem_set_boot_reason(@, eBOOT_REASON_COM)],
                  "PREPARE"), "CONNECT_RSP", eBOOT_MSG_OK) }
    ELSE { Send(fsm_goto_state(S, "IDLE"), "CONNECT_RSP", eBOOT_MSG_ERROR_INVALID_REQ) }

boot_com_prepare_msg_rcv_cb(S, c, p_head) ==
    LET \* pre-validation and erase
        Checked ==
            IF boot_get_state(S) = "PREPARE"
            THEN UNION { IF pre = eBOOT_MSG_OK
                         THEN boot_prepare_flash(S, BOOT_CFG_APP_HEAD_ADDR,
                                                 Val32(p_head.image_size))
                         ELSE { [S EXCEPT !.ret = pre] } :
                         pre \in { boot_pre_validate_image(c, S.flash, p_head) } }
            ELSE { [S EXCEPT !.ret = eBOOT_MSG_ERROR_INVALID_REQ] }
        \* header write (it succeeds or fails) or abort
        Entered(S1) ==
            IF S1.ret = eBOOT_MSG_OK
            THEN { [fsm_goto_state(S1, "FLASH") EXCEPT
                      !.flash = FlashWriteHead(@, Val32(p_head.image_addr), p_head),
                      !.flashing.fw_size = Val32(p_head.image_size),
                      !.flashing.working_addr = Val32(p_head.image_addr) + HEADER_SIZE],
                   [S1 EXCEPT !.ret = eBOOT_MSG_ERROR_FLASH_WRITE] }
            ELSE { fsm_goto_state(S1, "IDLE") }
    IN  { Send(S2, "PREPARE_RSP", S2.ret) : S2 \in UNION { Entered(S1) : S1 \in Checked } }

\* faulty variant of boot_com_flash_msg_rcv_cb: EXIT is entered as soon as
\* flashed_bytes reaches or passes fw_size (C7 detects it)
flash_cb_exit_on_overrun(S, c, p_data) ==
    LET size == Len(p_data)
        data == IF c.CRYPTION_EN THEN boot_if_decrypt_data(p_data) ELSE p_data
        W == [S EXCEPT !.flash = FlashWriteData(@, S.flashing.working_addr, data),
                       !.flashing.working_addr = @ + size,
                       !.flashing.flashed_bytes = @ + size,
                       !.ret = eBOOT_MSG_OK]
        Written ==
            IF boot_get_state(S) = "FLASH"
            THEN IF S.flashing.flashed_bytes < S.flashing.fw_size
                 THEN { IF W.flashing.flashed_bytes >= W.flashing.fw_size
                        THEN fsm_goto_state(W, "EXIT") ELSE W,
                        [S EXCEPT !.ret = eBOOT_MSG_ERROR_FLASH_WRITE] }
                 ELSE { [S EXCEPT !.ret = eBOOT_MSG_ERROR_FLASH_WRITE] }
            ELSE { [S EXCEPT !.ret = eBOOT_MSG_ERROR_INVALID_REQ] }
        Aborted(S1) ==
            IF S1.ret # eBOOT_MSG_OK
            THEN { [E EXCEPT !.ret = S1.ret] :
                   E \in boot_app_head_erase(fsm_goto_state(S1, "IDLE")) }
            ELSE { S1 }
    IN  { Send(S2, "FLASH_RSP", S2.ret) : S2 \in UNION { Aborted(S1) : S1 \in Written } }

\* faulty variant of boot_com_flash_msg_rcv_cb: a FLASH request outside FLASH
\* is refused without the erase of the header (C29 detects it)
flash_cb_refuses_only(S, c, p_data) ==
    LET size == Len(p_data)
        data == IF c.CRYPTION_EN THEN boot_if_decrypt_data(p_data) ELSE p_data
        W == [S EXCEPT !.flash = FlashWriteData(@, S.flashing.working_addr, data),
                       !.flashing.working_addr = @ + size,
                       !.flashing.flashed_bytes = @ + size,
                       !.ret = eBOOT_MSG_OK]
        Written ==
            IF S.flashing.flashed_bytes < S.flashing.fw_size
            THEN { IF W.flashing.flashed_bytes = W.flashing.fw_size
                   THEN fsm_goto_state(W, "EXIT") ELSE W,
                   [S EXCEPT !.ret = eBOOT_MSG_ERROR_FLASH_WRITE] }
            ELSE { [S EXCEPT !.ret = eBOOT_MSG_ERROR_FLASH_WRITE] }
        Aborted(S1) ==
            IF S1.ret # eBOOT_MSG_OK
            THEN { [E EXCEPT !.ret = S1.ret] :
                   E \in boot_app_head_erase(fsm_goto_state(S1, "IDLE")) }
            ELSE { S1 }
    IN  IF boot_get_state(S) = "FLASH"
        THEN { Send(S2, "FLASH_RSP", S2.ret) : S2 \in UNION { Aborted(S1) : S1 \in Written } }
        ELSE { Send(fsm_goto_state(S, "IDLE"), "FLASH_RSP", eBOOT_MSG_ERROR_INVALID_REQ) }

boot_com_flash_msg_rcv_cb(S, c, p_data) ==
    LET size == Len(p_data)
        data == IF c.CRYPTION_EN THEN boot_if_decrypt_data(p_data) ELSE p_data
        W == [S EXCEPT !.flash = FlashWriteData(@, S.flashing.working_addr, data),
                       !.flashing.working_addr = @ + size,
                       !.flashing.flashed_bytes = @ + size,
                       !.ret = eBOOT_MSG_OK]
        \* the chunk write succeeds or fails
        Written ==
            IF boot_get_state(S) = "FLASH"
            THEN IF S.flashing.flashed_bytes < S.flashing.fw_size
                 THEN { IF W.flashing.flashed_bytes = W.flashing.fw_size
                        THEN fsm_goto_state(W, "EXIT") ELSE W,
                        [S EXCEPT !.ret = eBOOT_MSG_ERROR_FLASH_WRITE] }
                 ELSE { [S EXCEPT !.ret = eBOOT_MSG_ERROR_FLASH_WRITE] }
            ELSE { [S EXCEPT !.ret = eBOOT_MSG_ERROR_INVALID_REQ] }
        Aborted(S1) ==
            IF S1.ret # eBOOT_MSG_OK
            THEN { [E EXCEPT !.ret = S1.ret] :
                   E \in boot_app_head_erase(fsm_goto_state(S1, "IDLE")) }
            ELSE { S1 }
    IN  { Send(S2, "FLASH_RSP", S2.ret) : S2 \in UNION { Aborted(S1) : S1 \in Written } }

\* faulty variant of boot_com_exit_msg_rcv_cb: an EXIT outside EXIT leaves
\* the state alone (C8 detects it)
exit_cb_keeps_state(S) ==
    IF boot_get_state(S) = "EXIT"
    THEN UNION { IF V.ret = eBOOT_OK
                 THEN { [Send(V, "EXIT_RSP", eBOOT_MSG_OK) EXCEPT !.susp = TRUE] }
                 ELSE { Send(fsm_goto_state(E, "IDLE"), "EXIT_RSP", eBOOT_MSG_ERROR_VALIDATION) :
                        E \in boot_app_head_erase(V) } :
                 V \in boot_fw_image_validate(S) }
    ELSE { Send(S, "EXIT_RSP", eBOOT_MSG_ERROR_INVALID_REQ) }

\* boot_com_exit_msg_rcv_cb up to its return or up to boot_wait( 5U ), where
\* the callback is suspended (susp)
boot_com_exit_msg_rcv_cb(S) ==
    IF boot_get_state(S) = "EXIT"
    THEN UNION { IF V.ret = eBOOT_OK
                 THEN { [Send(V, "EXIT_RSP", eBOOT_MSG_OK) EXCEPT !.susp = TRUE] }
                 ELSE { Send(fsm_goto_state(E, "IDLE"), "EXIT_RSP", eBOOT_MSG_ERROR_VALIDATION) :
                        E \in boot_app_head_erase(V) } :
                 V \in boot_fw_image_validate(S) }
    ELSE { Send(fsm_goto_state(S, "IDLE"), "EXIT_RSP", eBOOT_MSG_ERROR_INVALID_REQ) }

\* boot_com_exit_msg_rcv_cb from the return of boot_wait( 5U ) to its end
ExitResume(S) ==
    { IF S2.jump # "none" THEN S2 ELSE Send(S2, "EXIT_RSP", eBOOT_MSG_OK) :
      S2 \in boot_start_application(
                [S EXCEPT !.shm = boot_shared_mem_set_boot_cnt(
                                    boot_shared_mem_set_boot_reason(@, eBOOT_REASON_NONE), 0)],
                "exit") }

\* faulty variant of boot_com_info_msg_rcv_cb: outside IDLE the request
\* sends the FSM to IDLE as the other callbacks do (C20 detects it)
info_cb_goes_idle(S) ==
    IF boot_get_state(S) = "IDLE"
    THEN { [S EXCEPT !.tx = Append(@, [cmd |-> "INFO_RSP", status |-> eBOOT_MSG_OK,
                                       boot_ver |-> BOOT_SW_VER])] }
    ELSE { [fsm_goto_state(S, "IDLE")
               EXCEPT !.tx = Append(@, [cmd |-> "INFO_RSP",
                                        status |-> eBOOT_MSG_ERROR_INVALID_REQ,
                                        boot_ver |-> 0])] }

boot_com_info_msg_rcv_cb(S) ==
    IF boot_get_state(S) = "IDLE"
    THEN { [S EXCEPT !.tx = Append(@, [cmd |-> "INFO_RSP", status |-> eBOOT_MSG_OK,
                                       boot_ver |-> BOOT_SW_VER])] }
    ELSE { [S EXCEPT !.tx = Append(@, [cmd |-> "INFO_RSP",
                                       status |-> eBOOT_MSG_ERROR_INVALID_REQ,
                                       boot_ver |-> 0])] }

-----------------------------------------------------------------------------
(* State handlers and the state machine engine *)

\* faulty variant of boot_fsm_idle_hndl: the attempt to leave is repeated in
\* every call once the timeout has passed (C31 detects it)
idle_hndl_retries(S, idle_duration, first_entry) ==
    LET S1 == IF first_entry
              THEN [S EXCEPT !.flashing = FlashingZero, !.try_to_leave = FALSE]
              ELSE S
    IN  IF idle_duration >= BOOT_CFG_JUMP_TO_APP_TIMEOUT_MS
        THEN UNION { IF V.ret = eBOOT_OK
                     THEN boot_start_application(
                            [V EXCEPT !.shm = boot_shared_mem_set_boot_reason(@, eBOOT_REASON_NONE)],
                            "idle")
                     ELSE { V } :
                     V \in boot_fw_image_validate([S1 EXCEPT !.try_to_leave = TRUE]) }
        ELSE { S1 }

\* faulty variant of boot_fsm_idle_hndl: the first entry into IDLE leaves the
\* flashing context alone (C37 detects it)
idle_hndl_keeps_context(S, idle_duration, first_entry) ==
    LET S1 == IF first_entry
              THEN [S EXCEPT !.try_to_leave = FALSE]
              ELSE S
    IN  IF idle_duration >= BOOT_CFG_JUMP_TO_APP_TIMEOUT_MS /\ ~S1.try_to_leave
        THEN UNION { IF V.ret = eBOOT_OK
                     THEN boot_start_application(
                            [V EXCEPT !.shm = boot_shared_mem_set_boot_reason(@, eBOOT_REASON_NONE)],
                            "idle")
                     ELSE { V } :
                     V \in boot_fw_image_validate([S1 EXCEPT !.try_to_leave = TRUE]) }
        ELSE { S1 }

boot_fsm_idle_hndl(S, idle_duration, first_entry) ==
    LET S1 == IF first_entry
              THEN [S EXCEPT !.flashing = FlashingZero, !.try_to_leave = FALSE]
              ELSE S
    IN  IF idle_duration >= BOOT_CFG_JUMP_TO_APP_TIMEOUT_MS /\ ~S1.try_to_leave
        THEN UNION { IF V.ret = eBOOT_OK
                     THEN boot_start_application(
                            [V EXCEPT !.shm = boot_shared_mem_set_boot_reason(@, eBOOT_REASON_NONE)],
                            "idle")
                     ELSE { V } :
                     V \in boot_fw_image_validate([S1 EXCEPT !.try_to_leave = TRUE]) }
        ELSE { S1 }

boot_fsm_prepare_hndl(S, state_duration) ==
    IF state_duration >= BOOT_CFG_PREPARE_IDLE_TIMEOUT_MS
    THEN boot_app_head_erase(fsm_goto_state(S, "IDLE"))
    ELSE { S }

\* faulty variant of boot_fsm_flash_hndl: the FLASH state times out on its
\* age alone (C32 detects it)
flash_hndl_state_age_only(S, state_duration, time_from_last_rx) ==
    IF state_duration >= BOOT_CFG_FLASH_IDLE_TIMEOUT_MS
    THEN boot_app_head_erase(fsm_goto_state(S, "IDLE"))
    ELSE { S }

boot_fsm_flash_hndl(S, state_duration, time_from_last_rx) ==
    IF state_duration >= BOOT_CFG_FLASH_IDLE_TIMEOUT_MS
       /\ time_from_last_rx >= BOOT_CFG_FLASH_IDLE_TIMEOUT_MS
    THEN boot_app_head_erase(fsm_goto_state(S, "IDLE"))
    ELSE { S }

\* faulty variant of boot_fsm_exit_hndl: the EXIT state has no timeout (C13
\* detects it)
exit_hndl_no_timeout(S, state_duration) == { S }

boot_fsm_exit_hndl(S, state_duration) ==
    IF state_duration >= BOOT_CFG_EXIT_IDLE_TIMEOUT_MS
    THEN boot_app_head_erase(fsm_goto_state(S, "IDLE"))
    ELSE { S }

\* the duration at which the handler of a state acts
StateTimeout(st) ==
    CASE st = "IDLE"    -> BOOT_CFG_JUMP_TO_APP_TIMEOUT_MS
      [] st = "PREPARE" -> BOOT_CFG_PREPARE_IDLE_TIMEOUT_MS
      [] st = "FLASH"   -> BOOT_CFG_FLASH_IDLE_TIMEOUT_MS
      [] st = "EXIT"    -> BOOT_CFG_EXIT_IDLE_TIMEOUT_MS

\* fsm_get_duration: zero in the call that enters the state, afterwards a
\* clock reading one below or at the limit of the state.  A boot_wait loop
\* ( 5 ms, BOOT_CFG_WAIT_AT_STARTUP_MS ) ends before a state that is current
\* or entered inside it can reach its limit.
fsm_get_duration(st, entered, in_wait) ==
    IF entered THEN { 0 }
    ELSE IF in_wait THEN { StateTimeout(st) - 1 }
    ELSE { StateTimeout(st) - 1, StateTimeout(st) }

\* SYSTICK - boot_com_get_last_rx_timestamp(): one below or at the limit
RxGaps == { BOOT_CFG_FLASH_IDLE_TIMEOUT_MS - 1, BOOT_CFG_FLASH_IDLE_TIMEOUT_MS }

\* the same reading in a call whose parser has just completed a frame
\* (rx_now): the last byte was stamped in this call
RxGapOf(S) == IF S.rx_now THEN { 0 } ELSE RxGaps

\* the activity of state st
Activity(S, st, first) ==
    CASE st = "IDLE" ->
            UNION { boot_fsm_idle_hndl(S, d, first) : d \in fsm_get_duration(st, first, S.in_wait) }
      [] st = "PREPARE" ->
            UNION { boot_fsm_prepare_hndl(S, d) : d \in fsm_get_duration(st, first, S.in_wait) }
      [] st = "FLASH" ->
            UNION { boot_fsm_flash_hndl(S, d, g) :
                    d \in fsm_get_duration(st, first, S.in_wait), g \in RxGapOf(S) }
      [] st = "EXIT" ->
            UNION { boot_fsm_exit_hndl(S, d) : d \in fsm_get_duration(st, first, S.in_wait) }

\* fsm_hndl: perform the requested transition, then run the activity of the
\* current state
fsm_hndl(S) ==
    { [S2 EXCEPT !.fsm.first_entry = FALSE] :
      S2 \in Activity([S EXCEPT !.fsm.cur = S.fsm.next], S.fsm.next,
                      S.fsm.cur # S.fsm.next \/ S.fsm.first_entry) }

-----------------------------------------------------------------------------
(* Frames and images offered to the loader *)

\* payload of the reference application image
ImageBytes == << 17, 34 >>

Seal(h) == [h EXCEPT !.crc = boot_app_head_calc_crc(h)]

HeadGood ==
    Seal([ crc |-> 0, ver |-> 1, image_type |-> eVER_IMAGE_TYPE_APP,
           sig_type |-> eVER_SIG_TYPE_NONE,
           image_addr |-> LE32(BOOT_CFG_APP_HEAD_ADDR), image_size |-> LE32(Len(ImageBytes)),
           image_crc |-> Crc32(ImageBytes), sw_ver |-> LE32(FW_VER_LIM),
           hw_ver |-> LE32(HW_VER_LIM),
           signature |-> Sign("vendor", cf_sha256(ImageBytes)),
           hash |-> cf_sha256(ImageBytes) ])

HeadEcdsa == Seal([HeadGood EXCEPT !.sig_type = eVER_SIG_TYPE_ECSDA])

HeadForged ==
    Seal([HeadGood EXCEPT !.sig_type = eVER_SIG_TYPE_ECSDA,
                          !.signature = Sign("forged", cf_sha256(ImageBytes))])

HeadCorrupt == [HeadGood EXCEPT !.crc = (@ + 1) % 256]

HeadBadImageCrc == Seal([HeadGood EXCEPT !.image_crc = Crc32(<< 17 >>)])

HeadAlt == Seal([HeadGood EXCEPT !.image_addr = LE32(ALT_HEAD_ADDR)])

HeadTooBig == Seal([HeadGood EXCEPT !.image_size = LE32(BOOT_CFG_APP_SIZE_MAX + 1)])

HeadEmpty ==
    Seal([HeadGood EXCEPT !.image_size = LE32(0), !.image_crc = Crc32(<< >>),
                          !.signature = Sign("vendor", cf_sha256(<< >>)),
                          !.hash = cf_sha256(<< >>)])

HeadNotApp == Seal([HeadGood EXCEPT !.image_type = 1])

HeadUndefSig == Seal([HeadGood EXCEPT !.sig_type = 2])

HeadNewFw == Seal([HeadGood EXCEPT !.sw_ver = LE32(FW_VER_LIM + 1)])

HeadNewHw == Seal([HeadGood EXCEPT !.hw_ver = LE32(HW_VER_LIM + 1)])

Headers ==
    { HeadGood, HeadEcdsa, HeadForged, HeadCorrupt, HeadBadImageCrc, HeadAlt, HeadTooBig,
      HeadEmpty, HeadNotApp, HeadUndefSig, HeadNewFw, HeadNewHw }

\* FLASH payloads before encryption
PlainChunks == { << >>, << 17 >>, << 34 >>, << 17, 34 >> }

\* what the host puts on the wire for a chunk
Encode(c, chunk) == IF c.CRYPTION_EN THEN boot_if_decrypt_data(chunk) ELSE chunk

\* frames that passed the parser (preamble, length and CRC are good)
Frame(command, length, payload) ==
    [command |-> command, length |-> length, payload |-> payload]

PrepareFrames ==
    { Frame("PREPARE", HEADER_SIZE, h) : h \in Headers }
        \cup { Frame("PREPARE", HEADER_SIZE - 1, << >>) }

FlashFrames(c) == { Frame("FLASH", Len(p), Encode(c, p)) : p \in PlainChunks }

\* the resident application a device may hold at power-up
ResidentSlot ==
    [ head |-> HeadGood,
      data |-> [i \in 1..MaxApp |-> IF i <= Len(ImageBytes) THEN ImageBytes[i] ELSE 255] ]

FlashInit ==
    { [slot \in Slots |-> ErasedSlot],
      [slot \in Slots |-> IF slot = "app" THEN ResidentSlot ELSE ErasedSlot] }

SealShm(m) == [m EXCEPT !.crc = boot_shared_mem_calc_crc(m)]

ShmBlank ==
    [crc |-> 0, ver |-> BOOT_SHARED_MEM_VER, boot_ver |-> BOOT_SW_VER,
     boot_reason |-> eBOOT_REASON_NONE, boot_cnt |-> 0]

\* shared memory as found at reset: left by the application (no request, an
\* update request, a boot counter one below the limit) or corrupted
ShmInit ==
    { SealShm(ShmBlank),
      SealShm([ShmBlank EXCEPT !.boot_reason = eBOOT_REASON_COM]),
      SealShm([ShmBlank EXCEPT !.boot_cnt = BOOT_CFG_BOOT_CNT_LIMIT - 1]),
      [SealShm(ShmBlank) EXCEPT !.boot_reason = eBOOT_REASON_COM] }

-----------------------------------------------------------------------------
(* boot_com_hndl, boot_hndl, boot_init *)

boot_parse_prepare(S, c, f) ==
    IF f.length = HEADER_SIZE THEN boot_com_prepare_msg_rcv_cb(S, c, f.payload) ELSE { S }

\* boot_com_hndl with the frame the parser completed in this call, if any
boot_com_hndl(S, c, f) ==
    CASE f.command = "CONNECT" -> boot_com_connect_msg_rcv_cb(S)
      [] f.command = "PREPARE" -> boot_parse_prepare(S, c, f)
      [] f.command = "FLASH"   -> boot_com_flash_msg_rcv_cb(S, c, f.payload)
      [] f.command = "EXIT"    -> boot_com_exit_msg_rcv_cb(S)
      [] f.command = "INFO"    -> boot_com_info_msg_rcv_cb(S)
      [] OTHER                 -> { S }

\* boot_hndl; a callback suspended in boot_wait leaves fsm_hndl for later
boot_hndl(S, c, f) ==
    UNION { IF S1.susp THEN { S1 } ELSE fsm_hndl(S1) :
            S1 \in boot_com_hndl([S EXCEPT !.rx_now = f.command # "NONE"], c, f) }

\* faulty variant of boot_init_boot_counter: the limit itself is still let
\* through (C17 detects it)
boot_counter_trips_late(S, c) ==
    IF c.APP_BOOT_CNT_CHECK_EN
    THEN LET r   == boot_shared_mem_get_boot_cnt(S.shm, 0)
             cnt == IF r[1] = eBOOT_OK THEN r[2] ELSE 0
             Limited ==
                IF r[1] = eBOOT_OK /\ cnt > BOOT_CFG_BOOT_CNT_LIMIT
                THEN boot_app_head_erase(
                        [S EXCEPT !.shm = boot_shared_mem_set_boot_reason(@, eBOOT_REASON_COM)])
                ELSE { S }
         IN  { [S1 EXCEPT !.shm = boot_shared_mem_set_boot_cnt(@, cnt)] : S1 \in Limited }
    ELSE { S }

boot_init_boot_counter(S, c) ==
    IF c.APP_BOOT_CNT_CHECK_EN
    THEN LET r   == boot_shared_mem_get_boot_cnt(S.shm, 0)
             cnt == IF r[1] = eBOOT_OK THEN r[2] ELSE 0
             Limited ==
                IF r[1] = eBOOT_OK /\ cnt >= BOOT_CFG_BOOT_CNT_LIMIT
                THEN boot_app_head_erase(
                        [S EXCEPT !.shm = boot_shared_mem_set_boot_reason(@, eBOOT_REASON_COM)])
                ELSE { S }
         IN  { [S1 EXCEPT !.shm = boot_shared_mem_set_boot_cnt(@, cnt)] : S1 \in Limited }
    ELSE { S }

\* boot_init up to its return or up to boot_wait( BOOT_CFG_WAIT_AT_STARTUP_MS )
boot_init(S, c) ==
    UNION { IF S1.shm.boot_reason = eBOOT_REASON_NONE
            THEN { IF V.ret = eBOOT_OK THEN [V EXCEPT !.susp = TRUE] ELSE V :
                   V \in boot_fw_image_validate(S1) }
            ELSE { S1 } :
            S1 \in boot_init_boot_counter(
                      [S EXCEPT !.shm = boot_init_shared_mem(@),
                                !.fsm = [cur |-> "IDLE", next |-> "IDLE", first_entry |-> TRUE]],
                      c) }

\* faulty variant of InitResume: boot_reason is not looked at again after the
\* wait (C16 detects it)
init_resume_no_recheck(S) == boot_start_application(S, "init")

\* boot_init from the return of boot_wait to its end
InitResume(S) ==
    IF S.shm.boot_reason = eBOOT_REASON_NONE THEN boot_start_application(S, "init") ELSE { S }

-----------------------------------------------------------------------------
(* Receive parser (boot_com.c).  The received bytes are represented by     *)
(* what the parser reads from them: whether the header starts with the     *)
(* preamble, its length field and whether the frame CRC matches.  elapsed  *)
(* is BOOT_GET_SYSTICK() - last_timestamp, rx the number of bytes waiting  *)
(* in the receive driver.                                                  *)

\* sizeof( boot_header_t )
BOOT_HEADER_SIZE == 8

BOOT_COM_IDLE_TIMEOUT_MS == 20

eBOOT_ERROR_TIMEOUT == 2
eBOOT_WAR_EMPTY == 32
eBOOT_WAR_FULL == 64

\* size of the receive buffer of the model (BOOT_CFG_RX_BUF_SIZE bytes in the build)
RxBufSize == 12
\* most bytes waiting in the receive driver
MaxRxPending == 2

ParserModes == { "IDLE", "RCV_HEADER", "RCV_PAYLOAD" }

\* the length fields a header can carry: payloads that fit the buffer and
\* payloads that do not
HeaderLengths == 1..(RxBufSize - BOOT_HEADER_SIZE + 1)

\* g_parser after start-up, no byte waiting
ParserReset ==
    [mode |-> "IDLE", idx |-> 0, length |-> 0, elapsed |-> 0, rx |-> 0,
     status |-> eBOOT_WAR_EMPTY]

\* faulty variant of boot_buf_idx_increment: the index may reach the size of
\* the buffer (C38 detects it)
buf_idx_increment_to_size(P) ==
    IF P.idx < RxBufSize
    THEN [P EXCEPT !.idx = @ + 1, !.status = eBOOT_OK]
    ELSE [P EXCEPT !.idx = 0, !.status = eBOOT_WAR_FULL]

boot_buf_idx_increment(P) ==
    IF P.idx < RxBufSize - 1
    THEN [P EXCEPT !.idx = @ + 1, !.status = eBOOT_OK]
    ELSE [P EXCEPT !.idx = 0, !.status = eBOOT_WAR_FULL]

boot_parse_idle(P) == { [P EXCEPT !.mode = "RCV_HEADER", !.status = eBOOT_WAR_EMPTY] }

\* with the whole header in the buffer: a bare frame with a good or a bad
\* CRC, a header announcing a payload, or no preamble (no action)
boot_parse_rcv_header(P) ==
    IF P.idx = BOOT_HEADER_SIZE
    THEN { [P EXCEPT !.status = eBOOT_OK], [P EXCEPT !.status = eBOOT_ERROR_CRC],
           [P EXCEPT !.status = eBOOT_WAR_EMPTY] }
         \cup { [P EXCEPT !.mode = "RCV_PAYLOAD", !.length = n, !.status = eBOOT_WAR_EMPTY] :
                n \in HeaderLengths }
    ELSE { [P EXCEPT !.status = eBOOT_WAR_EMPTY] }

boot_parse_rcv_payload(P) ==
    IF P.idx = P.length + BOOT_HEADER_SIZE
    THEN { [P EXCEPT !.status = eBOOT_OK], [P EXCEPT !.status = eBOOT_ERROR_CRC] }
    ELSE { [P EXCEPT !.status = eBOOT_WAR_EMPTY] }

boot_parse(P) ==
    CASE P.mode = "IDLE"        -> boot_parse_idle(P)
      [] P.mode = "RCV_HEADER"  -> boot_parse_rcv_header(P)
      [] P.mode = "RCV_PAYLOAD" -> boot_parse_rcv_payload(P)

\* faulty variant of boot_timeout_check: the gap is only watched while a
\* payload is being received (C12 detects it)
timeout_check_payload_only(P) ==
    P.mode = "RCV_PAYLOAD" /\ P.elapsed >= BOOT_COM_IDLE_TIMEOUT_MS

\* faulty variant of boot_timeout_check: the gap has to exceed the timeout
\* (C25 detects it)
timeout_check_late(P) ==
    P.mode # "IDLE" /\ P.elapsed > BOOT_COM_IDLE_TIMEOUT_MS

\* boot_timeout_check: the flag it returns; the caller's view of the reset of
\* the buffer is ParserRestart
boot_timeout_check(P) ==
    P.mode # "IDLE" /\ P.elapsed >= BOOT_COM_IDLE_TIMEOUT_MS

\* buf.idx = 0 and mode = IDLE
ParserRestart(P) == [P EXCEPT !.idx = 0, !.mode = "IDLE", !.length = 0]

\* the while loop of boot_parse_hndl over the bytes waiting in the driver
RECURSIVE RxLoop(_)
RxLoop(P) ==
    IF P.rx = 0
    THEN { P }
    ELSE LET Q == boot_buf_idx_increment([P EXCEPT !.rx = @ - 1, !.elapsed = 0])
         IN  IF Q.status = eBOOT_OK
             THEN UNION { IF R.status \in { eBOOT_OK, eBOOT_ERROR_CRC }
                          THEN { ParserRestart(R) }
                          ELSE RxLoop(R) :
                          R \in boot_parse(Q) }
             \* boot_if_clear_rx_buf empties the driver or fails
             ELSE { ParserRestart([Q EXCEPT !.rx = n]) : n \in { 0, Q.rx } }

boot_parse_hndl(P) ==
    { IF boot_timeout_check(Q)
      THEN [ParserRestart(Q) EXCEPT !.status = eBOOT_ERROR_TIMEOUT]
      ELSE Q :
      Q \in RxLoop([P EXCEPT !.status = eBOOT_WAR_EMPTY]) }

\* faulty variant of Received: a frame whose CRC failed is handed on as well
\* (C30 detects it)
received_despite_crc(c, P, Q) ==
    IF Q.status \in { eBOOT_OK, eBOOT_ERROR_CRC }
    THEN LET length == (P.idx + (P.rx - Q.rx)) - BOOT_HEADER_SIZE
         IN  { Frame(command, 0, << >>) :
                 command \in IF length = 0 THEN { "CONNECT", "EXIT", "INFO" } ELSE { } }
             \cup { f \in FlashFrames(c) : f.length = length }
             \cup { Frame("UNKNOWN", length, << >>) }
    ELSE { Frame("NONE", 0, << >>) }

\* boot_com_hndl after boot_parse_hndl took the parser from P to Q: the frame
\* it looks up in g_parse_table, a request whose length is that of the frame
\* just completed or a command that is not in the table, and none unless the
\* parser returned eBOOT_OK
Received(c, P, Q) ==
    IF Q.status = eBOOT_OK
    THEN LET length == (P.idx + (P.rx - Q.rx)) - BOOT_HEADER_SIZE
         IN  { Frame(command, 0, << >>) :
                 command \in IF length = 0 THEN { "CONNECT", "EXIT", "INFO" } ELSE { } }
             \cup { f \in FlashFrames(c) : f.length = length }
             \cup { Frame("UNKNOWN", length, << >>) }
    ELSE { Frame("NONE", 0, << >>) }

-----------------------------------------------------------------------------
(* The state machine of the model *)

\* what a step did: the operation, the state it found, the outcome of
\* boot_app_head_erase if it was called, and the payload a callback consumed
Last(op, pre, erase, length, arg) ==
    [op |-> op, pre |-> pre, erase |-> erase, length |-> length, arg |-> arg]

\* the payload the callback of frame f looks at in state st
Consumed(f, st) ==
    IF (f.command = "PREPARE" /\ st = "PREPARE") \/ (f.command = "FLASH" /\ st = "FLASH")
    THEN f.payload ELSE << >>

\* the state a reset leaves: one of the builds cfgs, non-volatile memory one
\* of flashes, the handoff region one of shms, everything else zero
InitWith(cfgs, flashes, shms) ==
    /\ pc = "reset"
    /\ cfg \in cfgs
    /\ flash \in flashes
    /\ shm \in shms
    /\ fsm = [cur |-> "IDLE", next |-> "IDLE", first_entry |-> TRUE]
    /\ try_to_leave = FALSE
    /\ flashing = FlashingZero
    /\ wait = << >>
    /\ tx = << >>
    /\ last = Last("NONE", "IDLE", "none", 0, << >>)
    /\ sessions = 0
    /\ jumped = "none"
    /\ parser = ParserReset
    /\ stalled = FALSE
    /\ resets = 1

Init == InitWith(CfgSet, FlashInit, ShmInit)

\* the machine at the start of a step
Machine ==
    [ flash |-> flash, shm |-> shm, fsm |-> fsm, try_to_leave |-> try_to_leave,
      flashing |-> flashing, tx |-> << >>, erase |-> "none", jump |-> "none",
      susp |-> FALSE, ret |-> 0, in_wait |-> wait # << >>, rx_now |-> FALSE,
      erased |-> << >>, wdt |-> 0 ]

\* the enclosing boot_wait loop has run boot_hndl once more
Pumped(w) == IF w = << >> THEN w ELSE [w EXCEPT ![Len(w)].pumped = @ + 1]

\* a boot_wait loop may run boot_hndl once more
MayPump(w) == IF w = << >> THEN TRUE ELSE w[Len(w)].pumped < MaxPump

\* the machine at the end of a step; w is the stack of waits below the step
Committed(S, w, kind, op) ==
    /\ cfg' = cfg
    /\ flash' = S.flash
    /\ shm' = S.shm
    /\ fsm' = S.fsm
    /\ try_to_leave' = S.try_to_leave
    /\ flashing' = S.flashing
    /\ tx' = S.tx
    /\ last' = op
    /\ sessions' = IF op.op = "CONNECT" /\ op.pre = "IDLE" THEN sessions + 1 ELSE sessions
    /\ IF S.jump # "none"
       THEN pc' = "app" /\ jumped' = S.jump /\ wait' = << >>
       ELSE /\ pc' = "run"
            /\ jumped' = jumped
            /\ wait' = IF S.susp THEN Append(w, [kind |-> kind, pumped |-> 0])
                       ELSE Pumped(w)

\* the same with the receive parser left alone (the frame, if any, is given)
Commit(S, w, kind, op) ==
    /\ Committed(S, w, kind, op)
    /\ UNCHANGED << parser, stalled, resets >>

\* boot_init() after a reset
BootInit ==
    /\ pc = "reset"
    /\ \E S \in boot_init(Machine, cfg) :
        Commit(S, << >>, "init", Last("INIT", "IDLE", S.erase, 0, << >>))

\* one boot_hndl() call that dispatches frame f (main loop or boot_wait loop)
Step(f) ==
    /\ pc = "run"
    /\ MayPump(wait)
    /\ \E S \in boot_hndl(Machine, cfg, f) :
        /\ S.susp => Len(wait) < MaxNest
        /\ Commit(S, wait, "exit",
                  Last(f.command, fsm.cur, S.erase,
                       IF f.command = "PREPARE" THEN f.length ELSE 0,
                       Consumed(f, fsm.cur)))

\* the host opens at most MaxSessions sessions
HndlConnect ==
    /\ fsm.cur = "IDLE" => sessions < MaxSessions
    /\ Step(Frame("CONNECT", 0, << >>))

\* outside PREPARE the callback does not read the header: one full frame
\* and the short frame stand for all
HndlPrepare ==
    \E f \in PrepareFrames :
        /\ fsm.cur # "PREPARE" => f.payload \in { HeadGood, << >> }
        /\ Step(f)

\* outside FLASH the callback does not read the chunk: one chunk stands for
\* all; the payload window tracked by the model bounds the bytes written
HndlFlash ==
    \E f \in FlashFrames(cfg) :
        /\ fsm.cur # "FLASH" => f.length = 1 /\ f.payload = Encode(cfg, << 17 >>)
        /\ flashing.flashed_bytes + f.length <= MaxApp
        /\ Step(f)

HndlExit ==
    /\ pc = "run"
    /\ Step(Frame("EXIT", 0, << >>))

HndlInfo ==
    /\ pc = "run"
    /\ Step(Frame("INFO", 0, << >>))

\* one boot_hndl() call with no complete frame
HndlPoll ==
    /\ pc = "run"
    /\ Step(Frame("NONE", 0, << >>))

\* boot_wait( BOOT_CFG_WAIT_AT_STARTUP_MS ) of boot_init returns
InitWaitEnd ==
    /\ pc = "run"
    /\ wait # << >>
    /\ wait[Len(wait)].kind = "init"
    /\ wait[Len(wait)].pumped >= 1
    /\ \E S \in InitResume(Machine) :
        Commit(S, SubSeq(wait, 1, Len(wait) - 1), "init",
               Last("INIT_RESUME", fsm.cur, S.erase, 0, << >>))

\* boot_wait( 5U ) of boot_com_exit_msg_rcv_cb returns; the callback and the
\* boot_hndl() call that dispatched it run to their end
ExitWaitEnd ==
    /\ pc = "run"
    /\ wait # << >>
    /\ wait[Len(wait)].kind = "exit"
    /\ wait[Len(wait)].pumped >= 1
    /\ \E R \in ExitResume([Machine EXCEPT !.in_wait = Len(wait) > 1]) :
        \E S \in (IF R.jump # "none" THEN { R } ELSE fsm_hndl(R)) :
            Commit(S, SubSeq(wait, 1, Len(wait) - 1), "exit",
                   Last("EXIT_RESUME", fsm.cur, S.erase, 0, << >>))

Next ==
    \/ BootInit
    \/ HndlConnect
    \/ HndlPrepare
    \/ HndlFlash
    \/ HndlExit
    \/ HndlInfo
    \/ HndlPoll
    \/ InitWaitEnd
    \/ ExitWaitEnd

Spec == Init /\ [][Next]_vars

-----------------------------------------------------------------------------
(* Properties.  tx holds the responses of the last step, last what the step *)
(* dispatched and the state it found.                                       *)

Requests == { "CONNECT", "PREPARE", "FLASH", "EXIT", "INFO" }

RspOf(command) ==
    CASE command = "CONNECT" -> "CONNECT_RSP"
      [] command = "PREPARE" -> "PREPARE_RSP"
      [] command = "FLASH"   -> "FLASH_RSP"
      [] command = "EXIT"    -> "EXIT_RSP"
      [] command = "INFO"    -> "INFO_RSP"

\* the step answered with exactly one response cmd carrying status
Answered(t, cmd, status) == Len(t) = 1 /\ t[1].cmd = cmd /\ t[1].status = status

\* the resident header has a good CRC and its payload passes post-validation
PostValid(fl) ==
    /\ boot_app_head_read(fl) = eBOOT_OK
    /\ ImageCheck(fl, fl["app"].head) = eBOOT_OK

\* C1: whenever the loader has jumped to the application, the resident header
\* has a valid CRC and the payload passes post-validation at the jump.
\* Refuted: a FLASH frame handled inside a boot_wait loop erases the header
\* and the jump that follows the wait is not re-validated.
C1_JumpOnlyIntoValidImage == pc = "app" => PostValid(flash)

\* C2: every request frame is answered by exactly one response frame with the
\* matching *_RSP command, and the tail of a successful EXIT adds none.
\* Refuted: a PREPARE frame whose length is not the header size is dropped.
C2_ExactlyOneResponse ==
    /\ last.op \in Requests => Len(tx) = 1 /\ tx[1].cmd = RspOf(last.op)
    /\ last.op = "EXIT_RESUME" => tx = << >>

\* C3: after a request is answered with an error and the FSM is in IDLE, the
\* resident header no longer passes its CRC check (the erase driver working);
\* in particular after CONNECT in FLASH.
\* Refuted: only the FLASH callback, a failed post-validation and the state
\* timeouts erase the header.
C3_ErrorIntoIdleErasesHeader ==
    ( /\ last.op \in Requests
      /\ last.pre # "IDLE"
      /\ last.erase # "fail"
      /\ tx # << >>
      /\ tx[1].status # eBOOT_MSG_OK
      /\ fsm.cur = "IDLE" )
        => boot_app_head_read(flash) # eBOOT_OK

\* C4: CONNECT received in IDLE leaves boot_reason = COM in the handoff
\* region, the FSM in PREPARE and is answered OK; CONNECT received in
\* PREPARE, FLASH or EXIT leaves the FSM in IDLE and is answered
\* INVALID_REQUEST.
C4_Connect ==
    last.op = "CONNECT" =>
        IF last.pre = "IDLE"
        THEN /\ shm.boot_reason = eBOOT_REASON_COM
             /\ ShmValid(shm)
             /\ fsm.cur = "PREPARE"
             /\ Answered(tx, "CONNECT_RSP", eBOOT_MSG_OK)
        ELSE /\ fsm.cur = "IDLE"
             /\ Answered(tx, "CONNECT_RSP", eBOOT_MSG_ERROR_INVALID_REQ)

\* a CONNECT accepted in IDLE inside the back-door window of boot_init,
\* seen from PREPARE
C4_Witness ==
    /\ last.op = "CONNECT"
    /\ last.pre = "IDLE"
    /\ fsm.cur = "PREPARE"
    /\ shm.boot_reason = eBOOT_REASON_COM
    /\ wait # << >>

\* C5: a full PREPARE frame found in PREPARE is answered OK with the FSM in
\* FLASH and the flashing context {image_addr + HEADER_SIZE, 0, image_size},
\* or with a failing status and the FSM in IDLE; found in any other state it
\* is answered INVALID_REQUEST.
\* Refuted: a failed header write is answered FLASH_WRITE and the FSM stays
\* in PREPARE.
C5_Prepare ==
    (last.op = "PREPARE" /\ last.length = HEADER_SIZE) =>
        IF last.pre = "PREPARE"
        THEN /\ Len(tx) = 1
             /\ tx[1].cmd = "PREPARE_RSP"
             /\ IF tx[1].status = eBOOT_MSG_OK
                THEN /\ fsm.cur = "FLASH"
                     /\ flashing =
                          [ working_addr  |-> Val32(last.arg.image_addr) + HEADER_SIZE,
                            flashed_bytes |-> 0,
                            fw_size       |-> Val32(last.arg.image_size) ]
                ELSE fsm.cur = "IDLE"
        ELSE Answered(tx, "PREPARE_RSP", eBOOT_MSG_ERROR_INVALID_REQ)

\* the status bits the checks of pre-validation owe header h under build c
C6_FailingBits(c, h) ==
    IF boot_app_head_calc_crc(h) # h.crc \/ h.image_type # eVER_IMAGE_TYPE_APP
    THEN { eBOOT_MSG_ERROR_VALIDATION }
    ELSE { b \in { eBOOT_MSG_ERROR_FW_SIZE, eBOOT_MSG_ERROR_FW_VER,
                   eBOOT_MSG_ERROR_HW_VER, eBOOT_MSG_ERROR_SIGNATURE } :
           \/ b = eBOOT_MSG_ERROR_FW_SIZE /\ c.FW_SIZE_CHECK_EN
                /\ Val32(h.image_size) > BOOT_CFG_APP_SIZE_MAX
           \/ b = eBOOT_MSG_ERROR_FW_VER /\ c.FW_VER_CHECK_EN
                /\ Val32(h.sw_ver) > FW_VER_LIM
           \/ b = eBOOT_MSG_ERROR_HW_VER /\ c.HW_VER_CHECK_EN
                /\ Val32(h.hw_ver) > HW_VER_LIM
           \/ b = eBOOT_MSG_ERROR_SIGNATURE /\ c.DIGITAL_SIGN_EN
                /\ h.signature # Sign("vendor", h.hash) }

C6_Step ==
    ( /\ fsm.cur = "PREPARE"
      /\ last'.op = "PREPARE"
      /\ last'.length = HEADER_SIZE
      /\ C6_FailingBits(cfg, last'.arg) # {} )
        => /\ flash' = flash
           /\ last'.erase = "none"
           /\ fsm'.cur = "IDLE"
           /\ Len(tx') = 1
           /\ tx'[1].cmd = "PREPARE_RSP"
           /\ \A b \in C6_FailingBits(cfg, last'.arg) : HasBit(tx'[1].status, b)

C7_Chunk ==
    ( /\ fsm.cur = "FLASH"
      /\ fsm.next = "FLASH"
      /\ flashing.flashed_bytes < flashing.fw_size
      /\ last'.op = "FLASH" )
        => /\ Len(tx') = 1
           /\ tx'[1].cmd = "FLASH_RSP"
           /\ \/ /\ tx'[1].status = eBOOT_MSG_OK
                 /\ flashing' =
                      [flashing EXCEPT !.working_addr = @ + Len(last'.arg),
                                       !.flashed_bytes = @ + Len(last'.arg)]
                 /\ fsm'.cur \in { "FLASH", "EXIT" }
                 /\ fsm'.cur = "EXIT" <=> flashing'.flashed_bytes = flashing'.fw_size
              \/ /\ tx'[1].status = eBOOT_MSG_ERROR_FLASH_WRITE
                 /\ last'.erase # "none"
                 /\ fsm'.cur = "IDLE"

\* the step answered a FLASH frame with status, issued the header erase and
\* left the FSM in IDLE
C7_Refused(status) ==
    /\ Answered(tx', "FLASH_RSP", status)
    /\ last'.erase # "none"
    /\ fsm'.cur = "IDLE"

C7_OriginalStep ==
    /\ C7_Chunk
    /\ ( /\ fsm.cur \in { "FLASH", "EXIT" }
         /\ flashing.flashed_bytes >= flashing.fw_size
         /\ last'.op = "FLASH" )
           => C7_Refused(eBOOT_MSG_ERROR_FLASH_WRITE)

\* C7 as stated: chunks are acknowledged and counted as in C7_Chunk, and a
\* FLASH request that arrives after the image has been completely written is
\* answered FLASH_WRITE with the header erased and the FSM in IDLE.
\* Refuted: the last chunk moves the FSM to EXIT, where a FLASH request is
\* answered INVALID_REQUEST.
C7_Original == [][C7_OriginalStep]_vars

C7_AmendedStep ==
    /\ C7_Chunk
    /\ ( /\ fsm.cur = "FLASH"
         /\ flashing.flashed_bytes >= flashing.fw_size
         /\ last'.op = "FLASH" )
           => C7_Refused(eBOOT_MSG_ERROR_FLASH_WRITE)
    /\ (fsm.cur = "EXIT" /\ last'.op = "FLASH")
           => C7_Refused(eBOOT_MSG_ERROR_INVALID_REQ)

\* C7 amended: chunks are acknowledged and counted as in C7_Chunk; a FLASH
\* request met in FLASH with flashed_bytes >= fw_size is answered FLASH_WRITE,
\* and one that arrives after the last chunk has moved the FSM to EXIT is
\* answered INVALID_REQUEST, both with the header erase issued and the FSM in
\* IDLE.
C7_Flash == [][C7_AmendedStep]_vars

\* the chunk that completes a two-byte image was acknowledged, seen from EXIT
C7_Witness ==
    /\ last.op = "FLASH"
    /\ last.pre = "FLASH"
    /\ Answered(tx, "FLASH_RSP", eBOOT_MSG_OK)
    /\ fsm.cur = "EXIT"
    /\ flashing.flashed_bytes = 2
    /\ flashing.fw_size = 2

C8_Step ==
    /\ (fsm.cur = "EXIT" /\ last'.op = "EXIT" /\ ~PostValid(flash))
         => /\ Answered(tx', "EXIT_RSP", eBOOT_MSG_ERROR_VALIDATION)
            /\ last'.erase # "none"
            /\ last'.erase = "ok" => boot_app_head_read(flash') # eBOOT_OK
            /\ fsm'.cur = "IDLE"
    /\ (fsm.cur # "EXIT" /\ last'.op = "EXIT")
         => /\ Answered(tx', "EXIT_RSP", eBOOT_MSG_ERROR_INVALID_REQ)
            /\ fsm'.cur = "IDLE"

\* C8: EXIT found in EXIT with failing post-validation issues the erase of
\* the resident header (which then fails its CRC check), leaves the FSM in
\* IDLE and is answered VALIDATION; EXIT found in IDLE, PREPARE or FLASH
\* leaves the FSM in IDLE and is answered INVALID_REQUEST.
C8_Exit == [][C8_Step]_vars

\* an EXIT over an image that fails post-validation was refused and the
\* header erased
C8_Witness ==
    /\ last.op = "EXIT"
    /\ last.pre = "EXIT"
    /\ last.erase = "ok"
    /\ Answered(tx, "EXIT_RSP", eBOOT_MSG_ERROR_VALIDATION)
    /\ fsm.cur = "IDLE"
    /\ boot_app_head_read(flash) # eBOOT_OK

\* C9: when the loader has jumped out of an EXIT answered OK, the handoff
\* region holds boot_reason = NONE and boot_count = 0 under a valid CRC.
C9_HandoffAtExitJump ==
    (pc = "app" /\ jumped = "exit") =>
        /\ shm.boot_reason = eBOOT_REASON_NONE
        /\ shm.boot_cnt = 0
        /\ ShmValid(shm)

\* the loader jumped out of an EXIT answered OK in a session opened by CONNECT
C9_Witness ==
    /\ pc = "app"
    /\ jumped = "exit"
    /\ sessions = 1
    /\ last.op = "EXIT_RESUME"

\* C10: in FLASH, at each acknowledgement, working_addr = APP_HEAD_ADDR +
\* HEADER_SIZE + flashed_bytes, whatever image_addr the accepted header
\* declares.
\* Refuted: PREPARE takes working_addr from the image_addr of the header,
\* which no check compares with BOOT_CFG_APP_HEAD_ADDR.
C10_WorkingAddr ==
    ( /\ fsm.cur = "FLASH"
      /\ last.op \in { "PREPARE", "FLASH" }
      /\ tx # << >>
      /\ tx[1].status = eBOOT_MSG_OK )
        => flashing.working_addr
             = BOOT_CFG_APP_HEAD_ADDR + HEADER_SIZE + flashing.flashed_bytes

-----------------------------------------------------------------------------
\* C11: in every reachable state flashed_bytes <= image_size: no sequence of
\* FLASH requests makes the loader write more payload bytes than the accepted
\* header declared.
\* Refuted: the FLASH callback compares flashed_bytes with fw_size before the
\* write only, so a chunk longer than the remainder is written in full.
C11_FlashedWithinSize == flashing.flashed_bytes <= flashing.fw_size

-----------------------------------------------------------------------------
(* The receive parser on its own: bytes arrive, time passes, and            *)
(* boot_parse_hndl is called.                                               *)

InitParser == InitWith({ CfgDefault }, { [slot \in Slots |-> ErasedSlot] }, { SealShm(ShmBlank) })

\* everything but the parser
loader_vars ==
    << pc, cfg, flash, shm, fsm, try_to_leave, flashing, wait, tx, last, sessions, jumped,
       stalled, resets >>

\* one more byte reaches the receive driver
RxByte ==
    /\ parser.rx < MaxRxPending
    /\ parser' = [parser EXCEPT !.rx = @ + 1]
    /\ UNCHANGED loader_vars

\* one millisecond passes (the reading saturates at the timeout)
Tick ==
    /\ parser.elapsed < BOOT_COM_IDLE_TIMEOUT_MS
    /\ parser' = [parser EXCEPT !.elapsed = @ + 1]
    /\ UNCHANGED loader_vars

\* one call of boot_parse_hndl
ParseHndl ==
    /\ \E P \in boot_parse_hndl(parser) : parser' = P
    /\ UNCHANGED loader_vars

NextParser ==
    \/ RxByte
    \/ Tick
    \/ ParseHndl

\* the handle step is called again and again and time advances
SpecParser == InitParser /\ [][NextParser]_vars /\ WF_vars(ParseHndl) /\ WF_vars(Tick)

\* the results with which the parser leaves a frame
ParserResults == { eBOOT_OK, eBOOT_ERROR_CRC, eBOOT_ERROR_TIMEOUT, eBOOT_WAR_FULL }

\* C12: the receive parser never deadlocks: for every byte sequence and every
\* spacing of the bytes, with the handle step called repeatedly and time
\* advancing, a parser in RCV_HEADER or RCV_PAYLOAD eventually is back in
\* IDLE, and it gets there with a frame result (OK or CRC_ERROR), TIMEOUT or
\* FULL.
C12_ParserReturns ==
    /\ (parser.mode # "IDLE") ~> (parser.mode = "IDLE")
    /\ [][(parser.mode # "IDLE" /\ parser'.mode = "IDLE")
            => parser'.status \in ParserResults]_vars

\* a header without the preamble was followed by silence and the parser
\* dropped it on the inter-byte timeout
C12_Witness ==
    /\ parser.mode = "IDLE"
    /\ parser.status = eBOOT_ERROR_TIMEOUT
    /\ parser.elapsed = BOOT_COM_IDLE_TIMEOUT_MS

-----------------------------------------------------------------------------
(* boot_init_shared_mem on its own: the region found at reset is drawn from *)
(* ShmInputs and the routine is applied, alone or as the first step of      *)
(* boot_init.                                                               *)

\* regions as a reset can find them: any counter of interest, either boot
\* reason, a stale layout or loader version, a matching or a broken CRC
ShmInputs ==
    LET Sealed == { SealShm([ShmBlank EXCEPT !.boot_cnt = n, !.boot_reason = r,
                                             !.ver = v, !.boot_ver = b]) :
                    n \in { 0, BOOT_CFG_BOOT_CNT_LIMIT - 1, BOOT_CFG_BOOT_CNT_LIMIT,
                            UINT8_MAX - 1, UINT8_MAX },
                    r \in { eBOOT_REASON_NONE, eBOOT_REASON_COM },
                    v \in { 0, BOOT_SHARED_MEM_VER },
                    b \in { 0, BOOT_SW_VER } }
    IN  Sealed \cup { [m EXCEPT !.crc = (@ + 1) % 256] : m \in Sealed }

InitShm == InitWith(CfgSet, FlashInit, ShmInputs)

\* the region as bytes, ctrl.crc first
ShmImage(m) == << m.crc >> \o ShmBytes(m)

\* boot_init_shared_mem applied to the region found
InitSharedMem ==
    /\ pc = "reset"
    /\ pc' = "shm"
    /\ shm' = boot_init_shared_mem(shm)
    /\ last' = Last("SHM_INIT", "IDLE", "none", 0, ShmImage(shm))
    /\ UNCHANGED << cfg, flash, fsm, try_to_leave, flashing, wait, tx, sessions, jumped,
                    parser, stalled, resets >>

NextShm ==
    \/ InitSharedMem
    \/ BootInit

SpecShm == InitShm /\ [][NextShm]_vars

C14_Step ==
    (pc = "reset" /\ pc' = "shm" /\ ShmValid(shm)) =>
        /\ shm'.boot_cnt = IF shm.boot_cnt < UINT8_MAX THEN shm.boot_cnt + 1 ELSE UINT8_MAX
        /\ shm'.boot_reason = shm.boot_reason
        /\ shm'.ver = BOOT_SHARED_MEM_VER
        /\ shm'.boot_ver = BOOT_SW_VER
        /\ ShmValid(shm')

\* C14: the handoff-init routine applied to a region whose CRC is valid
\* increments boot_count by exactly 1 when it is below 255 and leaves it at
\* 255 otherwise, leaves boot_reason unchanged, writes layout_version and
\* boot_version, and leaves the region with a valid CRC.
C14_InitOfValidRegion == [][C14_Step]_vars

\* the routine met a valid region whose counter was 255 already and left it
\* there
C14_Witness ==
    /\ pc = "shm"
    /\ last.op = "SHM_INIT"
    /\ last.arg[1] = boot_calc_crc(SubSeq(last.arg, 2, Len(last.arg)))
    /\ last.arg[Len(last.arg) - 18] = UINT8_MAX
    /\ shm.boot_cnt = UINT8_MAX

C15_Step ==
    (pc = "reset" /\ ~ShmValid(shm)) =>
        /\ pc' = "shm" =>
              /\ shm'.boot_cnt = 0
              /\ shm'.boot_reason = eBOOT_REASON_NONE
              /\ ShmValid(shm')
        /\ last'.op = "INIT" =>
              /\ shm'.boot_cnt = 0
              /\ shm'.boot_reason = eBOOT_REASON_NONE
              /\ ShmValid(shm')
              /\ PostValid(flash) => (wait' # << >> /\ wait'[1].kind = "init")

\* C15: the handoff-init routine applied to a region whose CRC does not match
\* resets boot_count to 0 and boot_reason to NONE and leaves the region with
\* a valid CRC; boot_init decides about the jump on the region so reset (over
\* a valid image it opens the back-door window that precedes the jump).
C15_InitOfCorruptRegion == [][C15_Step]_vars

\* boot_init met a corrupted region (only then is the counter 0 after it)
\* over a valid image and opened the back-door window
C15_Witness ==
    /\ last.op = "INIT"
    /\ pc = "run"
    /\ wait # << >>
    /\ shm.boot_reason = eBOOT_REASON_NONE
    /\ shm.boot_cnt = 0
    /\ resets = 1

-----------------------------------------------------------------------------
\* the back-door window of boot_init is open (it opens only over a valid
\* image with boot_reason NONE)
C16_InWindow == pc = "run" /\ wait # << >> /\ wait[1].kind = "init"

C16_Step ==
    /\ (C16_InWindow /\ fsm.cur = "IDLE" /\ last'.op = "CONNECT")
         => /\ shm'.boot_reason = eBOOT_REASON_COM
            /\ fsm'.cur = "PREPARE"
            /\ pc' = "run"
    /\ (last'.op = "INIT_RESUME" /\ shm.boot_reason = eBOOT_REASON_COM)
         => /\ pc' = "run"
            /\ UNCHANGED << flash, shm, fsm >>
    /\ (last'.op = "INIT_RESUME" /\ shm.boot_reason = eBOOT_REASON_NONE)
         => \/ pc' = "app" /\ jumped' = "init"
            \/ pc' = "run" /\ UNCHANGED << flash, shm, fsm >>

\* C16: back-door: a CONNECT received in IDLE during the wait of
\* BOOT_CFG_WAIT_AT_STARTUP_MS sets boot_reason = COM and the FSM enters
\* PREPARE; at the end of the wait boot_reason COM aborts the jump; with
\* boot_reason still NONE the loader jumps (the jump is taken whenever
\* boot_if_deinit succeeds, and nothing else happens when it fails).
C16_BackDoor ==
    /\ [][C16_Step]_vars
    /\ []((C16_InWindow /\ Len(wait) = 1 /\ wait[1].pumped >= 1
           /\ shm.boot_reason = eBOOT_REASON_NONE)
            => ENABLED (InitWaitEnd /\ pc' = "app"))

\* a CONNECT came during the window, the wait has ended without a jump and
\* the FSM is in PREPARE
C16_Witness ==
    /\ last.op = "INIT_RESUME"
    /\ pc = "run"
    /\ wait = << >>
    /\ shm.boot_reason = eBOOT_REASON_COM
    /\ fsm.cur = "PREPARE"

-----------------------------------------------------------------------------
\* C20: INFO received in IDLE is answered OK with the loader version as
\* 4-byte payload; INFO received in PREPARE, FLASH or EXIT is answered
\* INVALID_REQUEST; in both cases INFO leaves the FSM state, the flashing
\* context, the flash content and the handoff region unchanged: the callback
\* changes nothing but the transmit line, and a handle step that dispatches
\* INFO ends where the same step without a frame can end.
C20_Info ==
    pc = "run" =>
        /\ \A S \in boot_com_info_msg_rcv_cb(Machine) :
            /\ [S EXCEPT !.tx = << >>] = Machine
            /\ Len(S.tx) = 1
            /\ S.tx[1].cmd = "INFO_RSP"
            /\ IF fsm.cur = "IDLE"
               THEN /\ S.tx[1].status = eBOOT_MSG_OK
                    /\ LE32(S.tx[1].boot_ver) = LE32(BOOT_SW_VER)
                    /\ Len(LE32(S.tx[1].boot_ver)) = 4
               ELSE S.tx[1].status = eBOOT_MSG_ERROR_INVALID_REQ
        /\ boot_com_info_msg_rcv_cb(Machine) # { }
        /\ { [S EXCEPT !.tx = Tail(@), !.rx_now = FALSE] :
              S \in boot_hndl(Machine, cfg, Frame("INFO", 0, << >>)) }
             \subseteq boot_hndl(Machine, cfg, Frame("NONE", 0, << >>))

\* an INFO request in the middle of the payload transfer was refused and the
\* transfer stands where it stood
C20_Witness ==
    /\ last.op = "INFO"
    /\ last.pre = "FLASH"
    /\ fsm.cur = "FLASH"
    /\ fsm.next = "FLASH"
    /\ flashing.flashed_bytes = 1
    /\ Answered(tx, "INFO_RSP", eBOOT_MSG_ERROR_INVALID_REQ)

-----------------------------------------------------------------------------
(* Happy path, scaled: the image is ImageBytes, sent in Len(ImageBytes)    *)
(* chunks of one byte (for 2048 bytes in two chunks of 1024).              *)

\* the k-th chunk as the host sends it
C19_ChunkSent(k) == Encode(cfg, << ImageBytes[k] >>)

\* the loader is waiting for a request with no state timeout pending
C19_Prompt == pc = "run" /\ fsm.next = fsm.cur

\* the response reports a failing flash driver
C19_DriverFailed(t) ==
    /\ Len(t) = 1
    /\ \/ HasBit(t[1].status, eBOOT_MSG_ERROR_FLASH_ERASE)
       \/ HasBit(t[1].status, eBOOT_MSG_ERROR_FLASH_WRITE)

\* the transfer stands where the happy path leaves it: the header of the
\* image accepted and written, the first flashed_bytes bytes in place
C19_Transfer ==
    /\ flash["app"].head = HeadGood
    /\ flashing.fw_size = Len(ImageBytes)
    /\ flashing.flashed_bytes < Len(ImageBytes)
    /\ flashing.working_addr = BOOT_CFG_APP_HEAD_ADDR + HEADER_SIZE + flashing.flashed_bytes
    /\ \A i \in 1..flashing.flashed_bytes : flash["app"].data[i] = ImageBytes[i]

C19_Step ==
    /\ (C19_Prompt /\ fsm.cur = "IDLE" /\ last'.op = "CONNECT")
         => /\ Answered(tx', "CONNECT_RSP", eBOOT_MSG_OK)
            /\ fsm'.cur = "PREPARE"
    /\ (C19_Prompt /\ fsm.cur = "PREPARE" /\ last'.op = "PREPARE" /\ last'.arg = HeadGood)
         => \/ /\ Answered(tx', "PREPARE_RSP", eBOOT_MSG_OK)
               /\ fsm'.cur = "FLASH"
               /\ flash'["app"].head = HeadGood
               /\ flashing'.flashed_bytes = 0
               /\ flashing'.fw_size = Len(ImageBytes)
               /\ flashing'.working_addr = BOOT_CFG_APP_HEAD_ADDR + HEADER_SIZE
            \/ C19_DriverFailed(tx') /\ tx'[1].cmd = "PREPARE_RSP"
    /\ (/\ C19_Prompt /\ fsm.cur = "FLASH"
        /\ C19_Transfer
        /\ last'.op = "FLASH"
        /\ last'.arg = C19_ChunkSent(flashing.flashed_bytes + 1))
         => \/ /\ Answered(tx', "FLASH_RSP", eBOOT_MSG_OK)
               /\ flashing'.flashed_bytes = flashing.flashed_bytes + 1
               /\ fsm'.cur = IF flashing'.flashed_bytes = Len(ImageBytes) THEN "EXIT" ELSE "FLASH"
               /\ flash'["app"].data[flashing'.flashed_bytes] = ImageBytes[flashing'.flashed_bytes]
               /\ flashing'.flashed_bytes = Len(ImageBytes) => PostValid(flash')
            \/ C19_DriverFailed(tx') /\ tx'[1].cmd = "FLASH_RSP"
    /\ (C19_Prompt /\ fsm.cur = "EXIT" /\ PostValid(flash) /\ last'.op = "EXIT")
         => /\ Answered(tx', "EXIT_RSP", eBOOT_MSG_OK)
            /\ pc' = "run"
            /\ wait' # << >>
            /\ wait'[Len(wait')].kind = "exit"
            /\ UNCHANGED << flash, fsm >>
    /\ (C19_Prompt /\ fsm.cur = "EXIT" /\ last'.op = "EXIT_RESUME")
         => \/ /\ pc' = "app"
               /\ jumped' = "exit"
               /\ tx' = << >>
               /\ shm'.boot_reason = eBOOT_REASON_NONE
               /\ shm'.boot_cnt = 0
            \/ pc' = "run"

\* with working drivers the next answer of the happy path is always OK
C19_Possible ==
    /\ (C19_Prompt /\ MayPump(wait) /\ fsm.cur = "PREPARE")
         => ENABLED (HndlPrepare /\ last'.arg = HeadGood
                     /\ Answered(tx', "PREPARE_RSP", eBOOT_MSG_OK))
    /\ (C19_Prompt /\ MayPump(wait) /\ fsm.cur = "FLASH" /\ C19_Transfer)
         => ENABLED (HndlFlash /\ last'.arg = C19_ChunkSent(flashing.flashed_bytes + 1)
                     /\ Answered(tx', "FLASH_RSP", eBOOT_MSG_OK))
    /\ (pc = "run" /\ wait # << >> /\ wait[Len(wait)].kind = "exit"
        /\ wait[Len(wait)].pumped >= 1)
         => ENABLED (ExitWaitEnd /\ pc' = "app")

-----------------------------------------------------------------------------
(* Resets.  A reset zeroes the module variables of boot.c; the handoff     *)
(* region (a non-initialized section) and the flash keep their content.    *)

\* a reset of the running loader or of the application it started; the
\* application leaves the handoff region alone
Reset ==
    /\ pc \in { "run", "app" }
    /\ resets < MaxResets
    /\ resets' = resets + 1
    /\ pc' = "reset"
    /\ fsm' = [cur |-> "IDLE", next |-> "IDLE", first_entry |-> TRUE]
    /\ try_to_leave' = FALSE
    /\ flashing' = FlashingZero
    /\ wait' = << >>
    /\ tx' = << >>
    /\ last' = Last("RESET", fsm.cur, "none", 0, << >>)
    /\ sessions' = 0
    /\ jumped' = "none"
    /\ UNCHANGED << cfg, flash, shm, parser, stalled >>

\* boot counting enabled, a valid resident image, and a handoff region that
\* the application has cleared or that the first reset finds corrupted
InitBootLoop ==
    InitWith({ CfgStrict },
             { [slot \in Slots |-> IF slot = "app" THEN ResidentSlot ELSE ErasedSlot] },
             { SealShm(ShmBlank), [SealShm(ShmBlank) EXCEPT !.crc = (@ + 1) % 256] })

\* resets in a row with a silent host
NextBootLoop ==
    \/ BootInit
    \/ HndlPoll
    \/ InitWaitEnd
    \/ Reset

SpecBootLoop == InitBootLoop /\ [][NextBootLoop]_vars

\* boot_init has just declared the application faulty
C17_Tripped ==
    /\ last.op = "INIT"
    /\ last.erase # "none"
    /\ shm.boot_reason = eBOOT_REASON_COM
    /\ pc = "run"
    /\ wait = << >>

\* boot_init has just opened the back-door window that precedes the jump
C17_GoesForJump ==
    /\ last.op = "INIT"
    /\ last.erase = "none"
    /\ shm.boot_reason = eBOOT_REASON_NONE
    /\ pc = "run"
    /\ wait # << >>
    /\ wait[1].kind = "init"

\* C17 as stated: with limit 5 and no application clearing the counter,
\* boot_init trips on the 6th consecutive reset and goes for the jump on the
\* resets before it.
\* Refuted for a run that starts from a valid region with boot_count 0: the
\* 5th reset finds boot_count = 5 and trips.
C17_Original ==
    (last.op = "INIT" /\ resets <= BOOT_CFG_BOOT_CNT_LIMIT + 1) =>
        IF resets = BOOT_CFG_BOOT_CNT_LIMIT + 1 THEN C17_Tripped ELSE C17_GoesForJump

\* C17: with boot counting enabled, whenever boot_init finds boot_count >=
\* BOOT_CFG_BOOT_CNT_LIMIT it sets boot_reason = COM, issues the erase of the
\* resident header and does not jump; with limit 5 and no application
\* clearing the counter this happens at the reset that brings boot_count to
\* 5, which is the 5th consecutive reset when the first one finds a valid
\* region with boot_count 0 and the 6th when the first one finds a corrupted
\* region; on the resets before it boot_init goes for the jump.
C17_BootCountTrip ==
    last.op = "INIT" =>
        /\ ShmValid(shm)
        /\ shm.boot_cnt \in { resets - 1, resets }
        /\ IF shm.boot_cnt >= BOOT_CFG_BOOT_CNT_LIMIT THEN C17_Tripped ELSE C17_GoesForJump
        /\ resets < BOOT_CFG_BOOT_CNT_LIMIT => C17_GoesForJump
        /\ resets > BOOT_CFG_BOOT_CNT_LIMIT => C17_Tripped

\* the 5th reset in a row tripped the counter and the header is gone
C17_Witness ==
    /\ C17_Tripped
    /\ resets = BOOT_CFG_BOOT_CNT_LIMIT
    /\ shm.boot_cnt = BOOT_CFG_BOOT_CNT_LIMIT
    /\ last.erase = "ok"
    /\ boot_app_head_read(flash) # eBOOT_OK

-----------------------------------------------------------------------------
(* An upgrade cut short by a reset: the host runs a session, a reset hits  *)
(* the loader in FLASH before the last chunk, and afterwards the host at   *)
(* most connects again.                                                    *)

BeforeReset == resets = 1 /\ Next

ResetInFlash ==
    /\ resets = 1
    /\ pc = "run"
    /\ fsm.cur = "FLASH"
    /\ flashing.flashed_bytes < flashing.fw_size
    /\ Reset

AfterReset ==
    /\ resets = 2
    /\ \/ BootInit
       \/ HndlConnect
       \/ HndlPoll
       \/ InitWaitEnd

NextReset ==
    \/ BeforeReset
    \/ ResetInFlash
    \/ AfterReset

SpecReset == Init /\ [][NextReset]_vars

\* C18: after a reset that hit the loader in FLASH with flashed_bytes <
\* image_size, the loader does not jump into the partially written image
\* (neither at boot_init nor later from the IDLE jump timeout), boot_init
\* leaves the FSM in IDLE, and the next CONNECT is answered OK.
\* Refuted: a header whose signature type is neither NONE nor ECDSA passes
\* pre-validation and, its image being checked by nothing, post-validation
\* as well; the IDLE jump timeout then starts the partial image.
C18_NoJumpAfterResetInFlash ==
    resets = 2 =>
        /\ sessions = 0 => pc # "app"
        /\ last.op = "INIT" => fsm.cur = "IDLE"
        /\ (last.op = "CONNECT" /\ last.pre = "IDLE")
              => Answered(tx, "CONNECT_RSP", eBOOT_MSG_OK)

-----------------------------------------------------------------------------
(* A host that stops sending: from some point on no frame arrives, while   *)
(* the main loop and the boot_wait loops keep calling boot_hndl and the    *)
(* clock advances.                                                         *)

UpgradeStates == { "PREPARE", "FLASH", "EXIT" }

\* the upgrades looked at: the build as shipped, a region that asks for
\* nothing, and a host that offers the reference image
InitStall == InitWith({ CfgDefault }, FlashInit, { SealShm(ShmBlank) })

\* the host is still there
Talking ==
    /\ ~stalled
    /\ Next
    /\ flash'["alt"] = ErasedSlot
    /\ flash'["app"].head \in { ErasedHeader, HeadGood, ResidentSlot.head }

\* the host sends its last byte
PeerStalls ==
    /\ pc = "run"
    /\ ~stalled
    /\ stalled' = TRUE
    /\ UNCHANGED << pc, cfg, flash, shm, fsm, try_to_leave, flashing, wait, tx, last,
                    sessions, jumped, parser, resets >>

\* boot_hndl called with nothing received
SilentPoll == stalled /\ HndlPoll

\* the call in which the clock reading of an upgrade state has reached its
\* limit
TimeoutDue ==
    /\ stalled
    /\ fsm.cur \in UpgradeStates
    /\ fsm.next = fsm.cur
    /\ HndlPoll
    /\ fsm'.next = "IDLE"

\* the call that takes the transition an earlier call has requested
TransitionDue ==
    /\ stalled
    /\ fsm.cur \in UpgradeStates
    /\ fsm.next # fsm.cur
    /\ HndlPoll

\* a boot_wait loop comes to its end
SilentWaitEnd == stalled /\ (InitWaitEnd \/ ExitWaitEnd)

NextStall ==
    \/ Talking
    \/ PeerStalls
    \/ SilentPoll
    \/ SilentWaitEnd

\* the handle step keeps running, the waits end and the clock reaches every
\* limit
SpecStall ==
    /\ InitStall
    /\ [][NextStall]_vars
    /\ WF_vars(TimeoutDue)
    /\ WF_vars(TransitionDue)
    /\ WF_vars(SilentWaitEnd)

\* the loader waits for the next request of an upgrade and the host is gone
C13_Stalled ==
    /\ stalled
    /\ pc = "run"
    /\ fsm.cur \in UpgradeStates
    /\ fsm.next = fsm.cur
    /\ \A i \in 1..Len(wait) : wait[i].kind # "exit"

\* the state timeout has fired: the FSM is on its way to IDLE and the erase
\* of the resident header was issued (a working erase leaves no valid header)
C13_TimedOut ==
    /\ stalled
    /\ last.op = "NONE"
    /\ last.pre \in UpgradeStates
    /\ fsm.next = "IDLE"
    /\ last.erase # "none"
    /\ last.erase = "ok" => boot_app_head_read(flash) # eBOOT_OK

\* C13: a stalled peer cannot leave the loader stuck in an upgrade state:
\* from PREPARE, FLASH or EXIT, if no further bytes are received and the
\* handle step keeps running, the state timeout fires, which issues the erase
\* of the resident header, and the FSM returns to IDLE.
C13_StallEndsInIdle ==
    /\ C13_Stalled ~> C13_TimedOut
    /\ C13_Stalled ~> (stalled /\ fsm.cur = "IDLE")

\* the host went silent in the middle of the payload transfer, the FLASH
\* timeout fired and the FSM is back in IDLE over an erased header
C13_Witness ==
    /\ stalled
    /\ last.op = "NONE"
    /\ last.pre = "FLASH"
    /\ fsm.cur = "IDLE"
    /\ boot_app_head_read(flash) # eBOOT_OK
    /\ flash["app"].data[1] = ImageBytes[1]


-----------------------------------------------------------------------------
(* Frames of either side: requests carrying the source byte of the loader   *)
(* and responses of a manager, next to the requests of a manager.           *)

\* boot_com_src_t
eCOM_MSG_SRC_BOOT_MANAGER == 43
eCOM_MSG_SRC_BOOTLOADER == 178

Responses == { RspOf(command) : command \in Requests }

\* a frame that passed the parser, with the source byte of its header
FrameFrom(source, command, length, payload) ==
    [command |-> command, length |-> length, payload |-> payload, source |-> source]

\* requests as they come with the source byte of a loader
LoaderRequests ==
    { FrameFrom(eCOM_MSG_SRC_BOOTLOADER, "CONNECT", 0, << >>),
      FrameFrom(eCOM_MSG_SRC_BOOTLOADER, "PREPARE", HEADER_SIZE, HeadGood),
      FrameFrom(eCOM_MSG_SRC_BOOTLOADER, "FLASH", 1, Encode(CfgDefault, << 17 >>)),
      FrameFrom(eCOM_MSG_SRC_BOOTLOADER, "EXIT", 0, << >>),
      FrameFrom(eCOM_MSG_SRC_BOOTLOADER, "INFO", 0, << >>) }

\* responses carrying the source byte of a manager; INFO_RSP has the version
\* as payload
ManagerResponses ==
    { FrameFrom(eCOM_MSG_SRC_BOOT_MANAGER, r, IF r = "INFO_RSP" THEN 4 ELSE 0,
                IF r = "INFO_RSP" THEN LE32(BOOT_SW_VER) ELSE << >>) : r \in Responses }

\* one boot_hndl() call that dispatches frame f; the source byte of the frame
\* is kept with the record of the step
StepFrom(f) ==
    /\ pc = "run"
    /\ MayPump(wait)
    /\ \E S \in boot_hndl(Machine, cfg, f) :
        /\ S.susp => Len(wait) < MaxNest
        /\ Commit(S, wait, "exit",
                  Last(f.command, fsm.cur, S.erase,
                       IF f.command = "PREPARE" THEN f.length ELSE 0,
                       Consumed(f, fsm.cur)) @@ [source |-> f.source])

\* the sessions opened and the bytes written are bounded as for the requests
\* of a manager
HndlLoaderRequest ==
    \E f \in LoaderRequests :
        /\ f.command = "CONNECT" /\ fsm.cur = "IDLE" => sessions < MaxSessions
        /\ f.command = "FLASH" => flashing.flashed_bytes + f.length <= MaxApp
        /\ StepFrom(f)

HndlResponse ==
    \E f \in ManagerResponses :
        /\ f.source = eCOM_MSG_SRC_BOOT_MANAGER
        /\ StepFrom(f)

\* the loader as shipped, receiving frames of every kind
SpecCom ==
    /\ InitWith({ CfgDefault }, FlashInit, { SealShm(ShmBlank) })
    /\ [][Next \/ HndlLoaderRequest \/ HndlResponse]_vars

\* the last step dispatched a request with the source byte of the loader
C21_LoaderRequest ==
    /\ "source" \in DOMAIN last
    /\ last.source = eCOM_MSG_SRC_BOOTLOADER
    /\ last.op \in Requests

\* the last step dispatched a response
C21_Response == "source" \in DOMAIN last /\ last.op \in Responses

\* the step ends, in FSM, flash and handoff region, where a handle step
\* without a frame can end
C21_AsWithoutFrame ==
    \E S \in boot_hndl(Machine, cfg, Frame("NONE", 0, << >>)) :
        /\ fsm' = S.fsm
        /\ flash' = S.flash
        /\ shm' = S.shm

\* C21: a CRC-valid request frame whose source byte is LOADER (0xB2), and a
\* CRC-valid response frame, are accepted by the parser but do not drive the
\* FSM: the handle step that dispatches one changes the FSM state, the flash
\* and the handoff region only as a handle step without a frame does.
\* Refuted: boot_com_hndl selects the parse function by the command byte alone,
\* so a request with the source byte of the loader runs the request callback.
C21_ForeignFramesDoNotDrive ==
    [][(C21_LoaderRequest' \/ C21_Response') => C21_AsWithoutFrame]_vars


-----------------------------------------------------------------------------
(* PREPARE at the size boundary: headers declaring BOOT_CFG_APP_SIZE_MAX    *)
(* and more, alone and together with every other failing check.             *)

\* the declared sizes: the largest one allowed and two above it
BoundarySizes ==
    { BOOT_CFG_APP_SIZE_MAX, BOOT_CFG_APP_SIZE_MAX + 1, 2 * BOOT_CFG_APP_SIZE_MAX }

\* header h declaring image_size n
Resized(h, n) == Seal([h EXCEPT !.image_size = LE32(n)])

\* headers that pass every other check or fail one of them (image type,
\* versions, signature, header CRC)
BoundaryHeaders ==
    { Resized(h, n) : h \in { HeadGood, HeadNotApp, HeadNewFw, HeadNewHw, HeadForged },
                      n \in BoundarySizes }
        \cup { [Resized(HeadGood, n) EXCEPT !.crc = (@ + 1) % 256] : n \in BoundarySizes }

HndlPrepareBoundary ==
    \E h \in BoundaryHeaders :
        /\ fsm.cur = "PREPARE"
        /\ Step(Frame("PREPARE", HEADER_SIZE, h))

\* boot_hndl with no frame, as long as the resident image lies within the
\* payload bytes the model tracks
HndlPollBoundary ==
    /\ boot_app_head_read(flash) = eBOOT_OK => Val32(flash["app"].head.image_size) <= MaxApp
    /\ HndlPoll

SpecBoundary ==
    /\ Init
    /\ [][BootInit \/ InitWaitEnd \/ HndlConnect \/ HndlPollBoundary
            \/ HndlPrepareBoundary]_vars

C22_Step ==
    ( /\ cfg.FW_SIZE_CHECK_EN
      /\ fsm.cur = "PREPARE"
      /\ last'.op = "PREPARE"
      /\ last'.length = HEADER_SIZE )
        => /\ Len(tx') = 1
           /\ tx'[1].cmd = "PREPARE_RSP"
           /\ Val32(last'.arg.image_size) = BOOT_CFG_APP_SIZE_MAX
                => ~HasBit(tx'[1].status, eBOOT_MSG_ERROR_FW_SIZE)
           /\ Val32(last'.arg.image_size) > BOOT_CFG_APP_SIZE_MAX
                => HasBit(tx'[1].status, eBOOT_MSG_ERROR_FW_SIZE)

\* C22: with the size check enabled, a PREPARE received in PREPARE whose
\* header declares image_size = APP_SIZE_MAX is not rejected for size, and
\* every header declaring image_size > APP_SIZE_MAX is answered with the
\* FW_SIZE bit (0x10) set in the status byte, whatever other checks the same
\* header fails.
\* Refuted: a wrong image type replaces the collected status bits by
\* VALIDATION, and a header with a bad CRC is not looked at further.
C22_SizeBoundary == [][C22_Step]_vars


-----------------------------------------------------------------------------
(* Builds with BOOT_CFG_FW_DOWNGRADE_EN = 0: PREPARE with headers older     *)
(* than, as old as and newer than the resident application.                 *)

\* the build as shipped and the build with every check on, downgrade disabled
CfgNoDowngrade ==
    { [CfgDefault EXCEPT !.FW_DOWNGRADE_EN = FALSE],
      [CfgStrict EXCEPT !.FW_DOWNGRADE_EN = FALSE] }

\* header h declaring version v
Versioned(h, v) == Seal([h EXCEPT !.sw_ver = LE32(v)])

\* versions around the one of the resident application (FW_VER_LIM), on
\* headers that pass the other checks or fail one (signature, HW version)
VersionHeaders ==
    { Versioned(h, v) : h \in { HeadGood, HeadEcdsa, HeadForged, HeadNewHw },
                        v \in { 0, FW_VER_LIM - 1, FW_VER_LIM, FW_VER_LIM + 1 } }

HndlPrepareVersion ==
    \E h \in VersionHeaders :
        /\ fsm.cur = "PREPARE"
        /\ Step(Frame("PREPARE", HEADER_SIZE, h))

SpecDowngrade ==
    /\ InitWith(CfgNoDowngrade, FlashInit, ShmInit)
    /\ [][BootInit \/ InitWaitEnd \/ HndlConnect \/ HndlPoll \/ HndlPrepareVersion]_vars

C23_Step ==
    ( /\ ~cfg.FW_DOWNGRADE_EN
      /\ fsm.cur = "PREPARE"
      /\ last'.op = "PREPARE"
      /\ last'.length = HEADER_SIZE
      /\ boot_app_header_check(last'.arg) = eBOOT_OK
      /\ last'.arg.image_type = eVER_IMAGE_TYPE_APP
      /\ boot_app_head_read(flash) = eBOOT_OK )
        => /\ Len(tx') = 1
           /\ tx'[1].cmd = "PREPARE_RSP"
           /\ ~HasBit(tx'[1].status, eBOOT_MSG_ERROR_FW_VER)
                => Val32(last'.arg.sw_ver) > Val32(flash["app"].head.sw_ver)
           /\ Val32(last'.arg.sw_ver) <= Val32(flash["app"].head.sw_ver)
                => /\ HasBit(tx'[1].status, eBOOT_MSG_ERROR_FW_VER)
                   /\ last'.erase = "none"
                   /\ flash' = flash

-----------------------------------------------------------------------------
\* what post-validation is to accept: a resident header with a valid CRC
\* whose signature (type ECDSA) or image CRC (type NONE) matches the payload
\* in the flash
C24_Accepts(fl) ==
    /\ boot_app_head_read(fl) = eBOOT_OK
    /\ \/ /\ fl["app"].head.sig_type = eVER_SIG_TYPE_ECSDA
          /\ boot_fw_image_check_sig(fl, fl["app"].head) = eBOOT_OK
       \/ /\ fl["app"].head.sig_type = eVER_SIG_TYPE_NONE
          /\ boot_fw_image_check_crc(fl, fl["app"].head) = eBOOT_OK

\* C24: post-validation accepts the image only if the re-read resident header
\* has a valid CRC and its signature (signature_type ECDSA) or its CRC32
\* (signature_type NONE) matches the written payload; every other
\* signature_type is rejected.  On a failure the erase of the resident header
\* is issued (when its CRC was valid) and neither the EXIT request nor the
\* IDLE timeout goes on to the jump.
\* Refuted: for a signature_type other than ECDSA and NONE the routine only
\* hits BOOT_ASSERT(0), compiled out in a release build, and returns OK.
C24_PostValidation ==
    pc = "run" =>
        /\ \A V \in boot_fw_image_validate(Machine) :
            /\ V.ret = eBOOT_OK => C24_Accepts(flash)
            /\ V.ret # eBOOT_OK =>
                /\ V.jump = "none"
                /\ V.erase # "none" \/ boot_app_head_read(flash) # eBOOT_OK
        /\ \A S \in boot_com_exit_msg_rcv_cb(Machine)
                      \cup boot_fsm_idle_hndl(Machine, BOOT_CFG_JUMP_TO_APP_TIMEOUT_MS, FALSE) :
            (S.susp \/ S.jump # "none") => C24_Accepts(flash)


-----------------------------------------------------------------------------
(* The receive parser with the spacing of the bytes on record: last.gap is  *)
(* the time between the reading of the previous byte and the arrival of the *)
(* byte that waits first in the receive driver.                             *)

\* one more byte reaches the receive driver
RxByteGap ==
    /\ parser.rx < MaxRxPending
    /\ parser' = [parser EXCEPT !.rx = @ + 1]
    /\ last' = IF parser.rx = 0 THEN [op |-> "RX", gap |-> parser.elapsed] ELSE last
    /\ UNCHANGED << pc, cfg, flash, shm, fsm, try_to_leave, flashing, wait, tx, sessions,
                    jumped, stalled, resets >>

SpecGap == InitParser /\ [][RxByteGap \/ Tick \/ ParseHndl]_vars

\* the gap after the last byte of the buffer: up to the arrival of the next
\* byte, or up to now when no byte has followed yet
C25_Gap ==
    IF parser.rx > 0 /\ "gap" \in DOMAIN last THEN last.gap ELSE parser.elapsed

\* C25 as stated, for a call of boot_parse_hndl over a partially received
\* frame: a gap below IDLE_TIMEOUT_MS never ends in TIMEOUT, and after a gap
\* of IDLE_TIMEOUT_MS or more the bytes received before the gap are dropped:
\* with no byte following, the parser is IDLE with an empty buffer and
\* reports TIMEOUT; a byte that followed begins a new frame.
C25_Original ==
    parser.mode # "IDLE" =>
        \A P \in boot_parse_hndl(parser) :
            IF C25_Gap < BOOT_COM_IDLE_TIMEOUT_MS
            THEN P.status # eBOOT_ERROR_TIMEOUT
            ELSE IF parser.rx = 0
                 THEN /\ P.mode = "IDLE"
                      /\ P.idx = 0
                      /\ P.status = eBOOT_ERROR_TIMEOUT
                 ELSE P.idx <= parser.rx

\* C25 (amended): the gap is measured by the handle step, from the reading
\* of the last byte.  A call of boot_parse_hndl over a partially received
\* frame that finds no byte waiting leaves the parser as it is when less than
\* IDLE_TIMEOUT_MS have passed, and resets it to IDLE with an empty buffer
\* and reports TIMEOUT when IDLE_TIMEOUT_MS or more have passed; the byte
\* read after that begins a new frame.  A call that finds a byte waiting
\* never reports TIMEOUT, whatever the gap before that byte.
C25_IdleTimeout ==
    \A P \in boot_parse_hndl(parser) :
        /\ parser.mode # "IDLE" /\ parser.rx = 0 =>
            IF parser.elapsed < BOOT_COM_IDLE_TIMEOUT_MS
            THEN P = [parser EXCEPT !.status = eBOOT_WAR_EMPTY]
            ELSE /\ P.mode = "IDLE"
                 /\ P.idx = 0
                 /\ P.status = eBOOT_ERROR_TIMEOUT
        /\ parser.mode # "IDLE" /\ parser.rx > 0 =>
            P.status # eBOOT_ERROR_TIMEOUT
        /\ (/\ parser.mode = "IDLE"
            /\ parser.status = eBOOT_ERROR_TIMEOUT
            /\ parser.rx = 1) =>
            /\ P.mode = "RCV_HEADER"
            /\ P.idx = 1

\* four bytes of a header, the fourth after a gap one below the timeout, were
\* followed by silence: the parser dropped them on the timeout
C25_Witness ==
    /\ parser.mode = "IDLE"
    /\ parser.idx = 0
    /\ parser.status = eBOOT_ERROR_TIMEOUT
    /\ parser.rx = 0
    /\ "gap" \in DOMAIN last
    /\ last.gap = BOOT_COM_IDLE_TIMEOUT_MS - 1


-----------------------------------------------------------------------------
\* C26: receive buffer boundary, for a call of boot_parse_hndl: the last byte
\* of a frame with payload_length = 0 and of one with payload_length up to
\* RX_BUF - 8 (total length up to RX_BUF) is taken and the frame can be
\* reported OK; within a frame that carried the preamble FULL is reported
\* only when the header announced payload_length > RX_BUF - 8, and a call
\* that reports FULL leaves the parser IDLE with an empty buffer.
\* Refuted: boot_buf_idx_increment reports FULL as soon as buf.idx is
\* RX_BUF - 1, so the last byte of a frame of exactly RX_BUF bytes is refused.
C26_BufferBoundary ==
    /\ \A P \in boot_parse_hndl(parser) :
        P.status = eBOOT_WAR_FULL =>
            /\ P.mode = "IDLE"
            /\ P.idx = 0
            /\ parser.mode = "RCV_PAYLOAD" => parser.length > RxBufSize - BOOT_HEADER_SIZE
    /\ (/\ parser.rx = 1
        /\ \/ parser.mode = "RCV_HEADER" /\ parser.idx = BOOT_HEADER_SIZE - 1
           \/ /\ parser.mode = "RCV_PAYLOAD"
              /\ parser.length <= RxBufSize - BOOT_HEADER_SIZE
              /\ parser.idx = (BOOT_HEADER_SIZE + parser.length) - 1) =>
        /\ \E P \in boot_parse_hndl(parser) : P.status = eBOOT_OK
        /\ \A P \in boot_parse_hndl(parser) : P.status # eBOOT_WAR_FULL


-----------------------------------------------------------------------------
\* what the caller's variable holds before a getter is called
C27_Outputs == { 0, eBOOT_REASON_COM, UINT8_MAX }

\* what C27 states of a getter: the result r of a call over region m with
\* the caller's variable holding out, for the stored value
C27_Got(r, m, out, stored) ==
    IF m.crc = boot_calc_crc(ShmBytes(m))
    THEN r = << eBOOT_OK, stored >>
    ELSE r = << eBOOT_ERROR_CRC, out >>

\* C27: once boot_init has run the CRC of the handoff region is valid in
\* every reachable state of the loader (every loader write recomputes it),
\* and each getter (layout version, boot reason, boot count, loader version)
\* returns eBOOT_ERROR_CRC and leaves its output untouched when the CRC of
\* the region does not match and returns the stored value with eBOOT_OK
\* otherwise.
C27_HandoffApi ==
    /\ pc # "reset" => shm.crc = boot_calc_crc(ShmBytes(shm))
    /\ \A out \in C27_Outputs :
        /\ C27_Got(boot_shared_mem_get_version(shm, out), shm, out, shm.ver)
        /\ C27_Got(boot_shared_mem_get_boot_reason(shm, out), shm, out, shm.boot_reason)
        /\ C27_Got(boot_shared_mem_get_boot_cnt(shm, out), shm, out, shm.boot_cnt)
        /\ C27_Got(boot_shared_mem_get_boot_ver(shm, out), shm, out, shm.boot_ver)

\* CONNECT has written boot_reason COM into a region that boot_init found
\* corrupted, and the getter returns it
C27_Witness ==
    /\ pc = "run"
    /\ last.op = "CONNECT"
    /\ fsm.cur = "PREPARE"
    /\ shm.boot_cnt = 0
    /\ boot_shared_mem_get_boot_reason(shm, eBOOT_REASON_NONE) = << eBOOT_OK, eBOOT_REASON_COM >>


-----------------------------------------------------------------------------
(* boot_prepare_flash on its own: applied at the application header address *)
(* to every image size of up to MaxErasePages pages, each call of the erase *)
(* driver succeeding or failing.                                            *)

MaxErasePages == 2

EraseSizes == 0..(MaxErasePages * FLASH_PAGE_SIZE)

PrepareFlash ==
    /\ pc = "reset"
    /\ pc' = "erase"
    /\ \E image_size \in EraseSizes :
        \E S \in boot_prepare_flash(Machine, BOOT_CFG_APP_HEAD_ADDR, image_size) :
            /\ flash' = S.flash
            /\ last' = [op |-> "ERASE", size |-> image_size, erased |-> S.erased,
                        wdt |-> S.wdt, ret |-> S.ret]
    /\ UNCHANGED << cfg, shm, fsm, try_to_leave, flashing, wait, tx, sessions, jumped,
                    parser, stalled, resets >>

SpecErase == InitWith({ CfgDefault }, FlashInit, { SealShm(ShmBlank) }) /\ [][PrepareFlash]_vars

\* C28: flash prepare erases page after page from image_addr on, kicks the
\* watchdog after each erased page, and either returns OK with every byte of
\* [image_addr, image_addr + HEADER_SIZE + image_size) erased, for every
\* residue of HEADER_SIZE + image_size modulo PAGE_SIZE, or stops at the
\* first page whose erase fails and returns FLASH_ERASE.
\* Refuted: the end address is taken one short and compared with <, so for
\* HEADER_SIZE + image_size = k * PAGE_SIZE + 1 the page holding the last
\* byte is not erased.
C28_PrepareFlash ==
    pc = "erase" =>
        LET pages == Len(last.erased)
        IN  /\ \A k \in 1..pages :
                last.erased[k] = BOOT_CFG_APP_HEAD_ADDR + (k - 1) * FLASH_PAGE_SIZE
            /\ last.wdt = pages
            /\ last.ret \in { eBOOT_MSG_OK, eBOOT_MSG_ERROR_FLASH_ERASE }
            /\ last.ret = eBOOT_MSG_OK => pages * FLASH_PAGE_SIZE >= HEADER_SIZE + last.size
            /\ last.ret = eBOOT_MSG_ERROR_FLASH_ERASE =>
                pages * FLASH_PAGE_SIZE < HEADER_SIZE + last.size


-----------------------------------------------------------------------------
C29_Step ==
    (fsm.cur \in { "IDLE", "PREPARE", "EXIT" } /\ last'.op = "FLASH")
        => /\ Answered(tx', "FLASH_RSP", eBOOT_MSG_ERROR_INVALID_REQ)
           /\ last'.erase # "none"
           /\ last'.erase = "ok" => boot_app_head_read(flash') # eBOOT_OK
           /\ fsm'.cur = "IDLE"

\* C29: a FLASH request found in IDLE, PREPARE or EXIT issues the erase of
\* the resident header (which then fails its CRC check), leaves the FSM in
\* IDLE and is answered INVALID_REQUEST, also over a valid resident image.
C29_FlashElsewhere == [][C29_Step]_vars

\* a FLASH request in IDLE over a valid resident image was refused and the
\* header erased, the payload still in place
C29_Witness ==
    /\ last.op = "FLASH"
    /\ last.pre = "IDLE"
    /\ last.erase = "ok"
    /\ Answered(tx, "FLASH_RSP", eBOOT_MSG_ERROR_INVALID_REQ)
    /\ fsm.cur = "IDLE"
    /\ boot_app_head_read(flash) # eBOOT_OK
    /\ flash["app"].data # ErasedBytes
    /\ wait # << >>


-----------------------------------------------------------------------------
(* The loader behind its receive parser: bytes arrive, time passes, and     *)
(* boot_hndl parses what has arrived and dispatches the frame the parser    *)
(* completed, if it returned eBOOT_OK.  The loader starts with an update    *)
(* request in the handoff region.                                           *)

\* one boot_hndl() call: boot_parse_hndl, the table lookup of boot_com_hndl,
\* then fsm_hndl
HndlRx ==
    /\ pc = "run"
    /\ MayPump(wait)
    /\ \E Q \in boot_parse_hndl(parser) :
        \E f \in Received(cfg, parser, Q) :
            \* the host opens at most MaxSessions sessions
            /\ f.command = "CONNECT" /\ fsm.cur = "IDLE" => sessions < MaxSessions
            /\ \E S \in UNION { IF S1.susp THEN { S1 } ELSE fsm_hndl(S1) :
                                S1 \in boot_com_hndl([Machine EXCEPT !.rx_now = parser.rx > 0],
                                                     cfg, f) } :
                   /\ S.susp => Len(wait) < MaxNest
                   /\ Committed(S, wait, "exit",
                                Last(f.command, fsm.cur, S.erase, 0, Consumed(f, fsm.cur)))
                   /\ parser' = Q
                   /\ UNCHANGED << stalled, resets >>

SpecLink ==
    /\ InitWith({ CfgDefault }, FlashInit,
                { SealShm([ShmBlank EXCEPT !.boot_reason = eBOOT_REASON_COM]) })
    /\ [][BootInit \/ RxByte \/ Tick \/ HndlRx]_vars

\* a boot_hndl() call of the loader behind its parser
C30_Handle == pc = "run" /\ parser' \in boot_parse_hndl(parser)

\* the parser has found a header without the preamble and waits for the reset
C30_BadPreamble == parser.mode = "RCV_HEADER" /\ parser.idx >= BOOT_HEADER_SIZE

\* the call ends as a call that received nothing can end, and nothing is sent
C30_NotDispatched ==
    /\ tx' = << >>
    /\ \E S \in boot_hndl(Machine, cfg, Frame("NONE", 0, << >>)) :
        /\ fsm' = S.fsm
        /\ flashing' = S.flashing
        /\ flash' = S.flash
        /\ shm' = S.shm

\* C30: a boot_hndl call in which the parser meets a header without the
\* preamble 0x07B0, or a frame whose CRC does not match, dispatches nothing:
\* no response is sent, and FSM state, flashing context, flash and handoff
\* region end as in a call that received nothing.  After the bad preamble
\* the parser keeps its mode and discards every further byte until the idle
\* timeout or the full buffer resets it; after the CRC error the parser is
\* IDLE with an empty buffer.
C30_BadFramesDropped ==
    [][C30_Handle =>
        /\ (C30_BadPreamble' \/ parser'.status = eBOOT_ERROR_CRC) => C30_NotDispatched
        /\ C30_BadPreamble =>
            /\ parser'.status \in { eBOOT_WAR_EMPTY, eBOOT_ERROR_TIMEOUT, eBOOT_WAR_FULL }
            /\ C30_NotDispatched
            /\ parser'.status = eBOOT_WAR_EMPTY =>
                /\ C30_BadPreamble'
                /\ parser'.idx = parser.idx + parser.rx
                /\ parser'.rx = 0
            /\ parser'.status # eBOOT_WAR_EMPTY => parser'.mode = "IDLE" /\ parser'.idx = 0
        /\ parser'.status = eBOOT_ERROR_CRC => parser'.mode = "IDLE" /\ parser'.idx = 0]_vars

\* in PREPARE, after a CONNECT, a frame with a CRC error has been dropped
C30_Witness ==
    /\ pc = "run"
    /\ fsm.cur = "PREPARE"
    /\ last.op = "NONE"
    /\ parser.status = eBOOT_ERROR_CRC
    /\ parser.mode = "IDLE"
    /\ tx = << >>


-----------------------------------------------------------------------------
\* a boot_hndl() call
C31_Handle == pc = "run" /\ last'.op \in Requests \cup { "NONE" }

\* what the IDLE activity does in a call that finds the FSM in IDLE: below
\* the timeout, or with the attempt used up, nothing; at the timeout the one
\* attempt, which either validates, clears boot_reason and goes for the jump
\* or leaves the loader in IDLE
C31_Activity ==
    (pc = "run" /\ fsm.cur = "IDLE") =>
        /\ boot_fsm_idle_hndl(Machine, BOOT_CFG_JUMP_TO_APP_TIMEOUT_MS - 1, FALSE) = { Machine }
        /\ try_to_leave =>
            boot_fsm_idle_hndl(Machine, BOOT_CFG_JUMP_TO_APP_TIMEOUT_MS, FALSE) = { Machine }
        /\ ~try_to_leave =>
            \A S \in boot_fsm_idle_hndl(Machine, BOOT_CFG_JUMP_TO_APP_TIMEOUT_MS, FALSE) :
                /\ S.try_to_leave
                /\ S.fsm = fsm
                /\ \/ S.shm.boot_reason = eBOOT_REASON_NONE /\ S.jump = "idle"
                   \/ S.shm.boot_reason = eBOOT_REASON_NONE /\ S.ret = eBOOT_ERROR
                   \/ S.shm = shm /\ S.jump = "none"

C31_Step ==
    /\ (C31_Handle /\ fsm.cur = "IDLE" /\ ~fsm.first_entry /\ fsm'.cur = "IDLE" /\ try_to_leave)
        => /\ try_to_leave'
           /\ ~(pc' = "app" /\ jumped' = "idle")
    /\ (C31_Handle /\ pc' = "app" /\ jumped' = "idle")
        => /\ fsm.cur = "IDLE"
           /\ ~try_to_leave
           /\ shm'.boot_reason = eBOOT_REASON_NONE
    /\ (C31_Handle /\ fsm.cur # "IDLE" /\ fsm'.cur = "IDLE")
        => /\ ~try_to_leave'
           /\ flashing' = FlashingZero

\* C31: while the FSM stays in IDLE post-validation is attempted once, in the
\* call that finds the time in IDLE at JUMP_TO_APP_TIMEOUT_MS: on success
\* boot_reason is cleared to NONE and the loader goes for the jump; once the
\* attempt is used up no call attempts it again or jumps out of IDLE; and a
\* call that enters IDLE from another state re-arms the attempt and clears
\* the flashing context.
C31_SingleAttempt == [] C31_Activity /\ [][C31_Step]_vars

\* the attempt failed and erased the header; the loader is left in IDLE
C31_Witness ==
    /\ pc = "run"
    /\ fsm.cur = "IDLE"
    /\ try_to_leave
    /\ last.op = "NONE"
    /\ last.pre = "IDLE"
    /\ last.erase # "none"


-----------------------------------------------------------------------------
\* the FLASH activity has timed out: the erase of the header was issued and
\* IDLE requested
C32_TimedOut(S) == S.erase # "none" /\ S.fsm.next = "IDLE"

\* the loader in FLASH with no transition pending
C32_InFlash == pc = "run" /\ fsm.cur = "FLASH" /\ fsm.next = "FLASH"

\* C32 as stated: with the time since the last received byte at
\* FLASH_IDLE_TIMEOUT_MS the FLASH activity erases the header and goes to
\* IDLE whatever the time spent in FLASH; with a shorter gap it does nothing.
C32_Original ==
    C32_InFlash =>
        \A d \in { 0, BOOT_CFG_FLASH_IDLE_TIMEOUT_MS - 1, BOOT_CFG_FLASH_IDLE_TIMEOUT_MS } :
            /\ \A S \in boot_fsm_flash_hndl(Machine, d, BOOT_CFG_FLASH_IDLE_TIMEOUT_MS) :
                C32_TimedOut(S)
            /\ boot_fsm_flash_hndl(Machine, d, BOOT_CFG_FLASH_IDLE_TIMEOUT_MS - 1) = { Machine }

C32_Activity ==
    C32_InFlash =>
        \A d \in { 0, BOOT_CFG_FLASH_IDLE_TIMEOUT_MS - 1, BOOT_CFG_FLASH_IDLE_TIMEOUT_MS },
           g \in { 0, BOOT_CFG_FLASH_IDLE_TIMEOUT_MS - 1, BOOT_CFG_FLASH_IDLE_TIMEOUT_MS } :
            IF d >= BOOT_CFG_FLASH_IDLE_TIMEOUT_MS /\ g >= BOOT_CFG_FLASH_IDLE_TIMEOUT_MS
            THEN \A S \in boot_fsm_flash_hndl(Machine, d, g) : C32_TimedOut(S)
            ELSE boot_fsm_flash_hndl(Machine, d, g) = { Machine }

C32_Step ==
    /\ (C32_InFlash /\ last'.op = "FLASH" /\ Answered(tx', "FLASH_RSP", eBOOT_MSG_OK))
        => /\ last'.erase = "none"
           /\ fsm'.cur \in { "FLASH", "EXIT" }
           /\ fsm'.next = fsm'.cur
    /\ (C32_InFlash /\ last'.op = "NONE" /\ fsm'.next = "IDLE")
        => last'.erase # "none"

\* C32 (amended): in FLASH, a FSM activity step that finds both the time
\* spent in FLASH and the time since the last received byte at
\* FLASH_IDLE_TIMEOUT_MS or more issues the erase of the resident header and
\* requests IDLE; a step that finds either of them shorter does nothing, so
\* the FLASH state does not time out while bytes keep arriving with shorter
\* gaps (a call that handles a FLASH request answered OK never times out),
\* nor before it is FLASH_IDLE_TIMEOUT_MS old.
C32_FlashTimeout == [] C32_Activity /\ [][C32_Step]_vars

\* the FLASH state has timed out in a call that received nothing
C32_Witness ==
    /\ pc = "run"
    /\ last.op = "NONE"
    /\ last.pre = "FLASH"
    /\ last.erase # "none"
    /\ fsm.cur = "FLASH"
    /\ fsm.next = "IDLE"


-----------------------------------------------------------------------------
\* C33: wherever the loader awaits a chunk in FLASH with the bytes flashed so
\* far within the image, a FLASH request exists that is answered OK and
\* brings the upgrade forward: it adds to flashed_bytes without passing
\* image_size (any accepted image_size, 0 included) and requests EXIT when
\* it completes the image, so that some sequence of FLASH requests ends in
\* EXIT; and the FSM is in EXIT only with flashed_bytes = image_size.
\* Refuted: after a PREPARE accepted with image_size = 0 every FLASH request
\* fails the test flashed_bytes < fw_size, is answered FLASH_WRITE and ends
\* in IDLE.
C33_CanComplete ==
    /\ (/\ pc = "run"
        /\ fsm.cur = "FLASH"
        /\ fsm.next = "FLASH"
        /\ flashing.flashed_bytes <= flashing.fw_size) =>
        \/ \E f \in FlashFrames(cfg) :
            \E S \in boot_com_flash_msg_rcv_cb(Machine, cfg, f.payload) :
                /\ Answered(S.tx, "FLASH_RSP", eBOOT_MSG_OK)
                /\ S.flashing.flashed_bytes = flashing.fw_size
                /\ S.fsm.next = "EXIT"
        \/ \E f \in FlashFrames(cfg) :
            \E S \in boot_com_flash_msg_rcv_cb(Machine, cfg, f.payload) :
                /\ Answered(S.tx, "FLASH_RSP", eBOOT_MSG_OK)
                /\ S.flashing.flashed_bytes > flashing.flashed_bytes
                /\ S.flashing.flashed_bytes < flashing.fw_size
                /\ S.fsm.next = "FLASH"
    /\ (pc = "run" /\ fsm.cur = "EXIT") => flashing.flashed_bytes = flashing.fw_size


-----------------------------------------------------------------------------
(* The decryption path of the FLASH callback on its own: the callback is    *)
(* handed a chunk of any size the protocol allows; the record keeps the     *)
(* value of BOOT_ASSERT( size < BOOT_CFG_DATA_PAYLOAD_SIZE ) and the number *)
(* of bytes boot_if_decrypt_data puts into decrypted_data.                  *)

ChunkSizes == 1..BOOT_CFG_DATA_PAYLOAD_SIZE

DecryptChunk ==
    /\ pc = "reset"
    /\ cfg.CRYPTION_EN
    /\ pc' = "chunk"
    /\ \E size \in ChunkSizes :
        last' = [op |-> "DECRYPT", size |-> size,
                 assertion |-> size < BOOT_CFG_DATA_PAYLOAD_SIZE,
                 decrypted |-> size]
    /\ UNCHANGED << cfg, flash, shm, fsm, try_to_leave, flashing, wait, tx, sessions, jumped,
                    parser, stalled, resets >>

SpecChunk == InitWith({ CfgDefault }, FlashInit, { SealShm(ShmBlank) }) /\ [][DecryptChunk]_vars

\* C34: with the decryption path enabled, for every FLASH payload of 1 up to
\* DATA_PAYLOAD_SIZE bytes the assertion of the FLASH callback on the chunk
\* size holds and the decrypted chunk fits the scratch buffer of
\* DATA_PAYLOAD_SIZE bytes.
\* Refuted: the assertion is size < BOOT_CFG_DATA_PAYLOAD_SIZE and fails for
\* a full chunk of DATA_PAYLOAD_SIZE bytes.
C34_ChunkAssertion ==
    pc = "chunk" =>
        /\ last.assertion
        /\ last.decrypted <= BOOT_CFG_DATA_PAYLOAD_SIZE


-----------------------------------------------------------------------------
\* a boot_wait loop returns and the code after it jumps to the application
C35_JumpAfterWait ==
    /\ pc = "run"
    /\ pc' = "app"
    /\ last'.op \in { "INIT_RESUME", "EXIT_RESUME" }

\* C35: a wait that pumps the handle step (the startup window of boot_init,
\* the 5 ms wait after a successful EXIT) never ends in a jump when the
\* resident header was erased during the wait or, for the wait of the EXIT
\* callback, when the FSM left EXIT during the wait.
\* Refuted: a nested boot_hndl erases the header and the code after the wait
\* jumps without validating again (the defect of C1, seen from the wait).
C35_Step ==
    C35_JumpAfterWait =>
        /\ PostValid(flash)
        /\ last'.op = "EXIT_RESUME" => fsm.cur = "EXIT"

C35_WaitKeepsImage == [][C35_Step]_vars


-----------------------------------------------------------------------------
\* [addr, addr + size) lies inside the region a PREPARE for an image of
\* image_size bytes erases
C36_Inside(addr, size, image_size) ==
    /\ BOOT_CFG_APP_HEAD_ADDR <= addr
    /\ addr + size <= BOOT_CFG_APP_HEAD_ADDR + HEADER_SIZE + image_size

\* C36: every flash write of an upgrade, the header write of an accepted
\* PREPARE and the chunk write of every FLASH request answered OK, targets
\* only addresses inside [APP_HEAD_ADDR, APP_HEAD_ADDR + HEADER_SIZE +
\* image_size), the region that PREPARE erased.
\* Refuted: the header is written at the image_addr the header declares,
\* which pre-validation never compares with APP_HEAD_ADDR (C10), and a chunk
\* that over-runs image_size is written in full (C11).
C36_WritesInsideErased ==
    pc = "run" =>
        /\ fsm.cur = "PREPARE" =>
              \A f \in PrepareFrames :
                  f.length = HEADER_SIZE =>
                      \A S \in boot_com_prepare_msg_rcv_cb(Machine, cfg, f.payload) :
                          S.ret = eBOOT_MSG_OK =>
                              C36_Inside(Val32(f.payload.image_addr), HEADER_SIZE,
                                         Val32(f.payload.image_size))
        /\ fsm.cur = "FLASH" =>
              \A f \in FlashFrames(cfg) :
                  \A S \in boot_com_flash_msg_rcv_cb(Machine, cfg, f.payload) :
                      S.ret = eBOOT_MSG_OK =>
                          C36_Inside(flashing.working_addr, f.length, flashing.fw_size)


-----------------------------------------------------------------------------
(* A host that opens a second session after the first: the loader starts    *)
(* with an update request in shared memory and is taken through CONNECT,    *)
(* PREPARE, FLASH and EXIT up to MaxReconnect times.                        *)

MaxReconnect == 2

HndlReconnect ==
    /\ fsm.cur = "IDLE" => sessions < MaxReconnect
    /\ Step(Frame("CONNECT", 0, << >>))

SpecSessions ==
    /\ InitWith({ CfgDefault }, FlashInit,
                { SealShm([ShmBlank EXCEPT !.boot_reason = eBOOT_REASON_COM]) })
    /\ [][BootInit \/ HndlReconnect \/ HndlPrepare \/ HndlFlash \/ HndlExit \/ HndlPoll
            \/ ExitWaitEnd]_vars
\* the FSM of the loader moves from state a to state b in this step
C37_Moves(a, b) == fsm.cur = a /\ fsm'.cur = b

\* what holds in the states the order of the requests leads to
C37_Order ==
    /\ fsm.cur \in { "PREPARE", "FLASH", "EXIT" } => sessions >= 1
    /\ fsm.cur = "EXIT" => flashing.flashed_bytes = flashing.fw_size
    /\ jumped = "exit" => sessions >= 1

C37_Step ==
    /\ fsm'.cur # fsm.cur =>
        \/ fsm'.cur = "IDLE"
        \/ /\ C37_Moves("IDLE", "PREPARE")
           /\ last'.op = "CONNECT"
           /\ Answered(tx', "CONNECT_RSP", eBOOT_MSG_OK)
        \/ /\ C37_Moves("PREPARE", "FLASH")
           /\ last'.op = "PREPARE"
           /\ Answered(tx', "PREPARE_RSP", eBOOT_MSG_OK)
        \/ /\ C37_Moves("FLASH", "EXIT")
           /\ last'.op = "FLASH"
           /\ Answered(tx', "FLASH_RSP", eBOOT_MSG_OK)
           /\ flashing'.flashed_bytes = flashing'.fw_size
    /\ (fsm.cur # "FLASH" /\ fsm'.cur = "FLASH") => flashing'.flashed_bytes = 0
    /\ (pc = "run" /\ pc' = "app" /\ jumped' = "exit") =>
        /\ fsm.cur = "EXIT" \/ last'.op = "EXIT_RESUME"
        /\ last'.op \in { "EXIT", "EXIT_RESUME" }

\* C37: the FSM changes state only along IDLE -> PREPARE (CONNECT answered
\* OK), PREPARE -> FLASH (PREPARE answered OK), FLASH -> EXIT (the FLASH
\* chunk that completes the image) and any state -> IDLE; the jump of the
\* EXIT callback is taken only after a CONNECT, a PREPARE answered OK and
\* FLASH requests totalling image_size; every entry into FLASH starts with
\* flashed_bytes = 0.
C37_Transitions == [] C37_Order /\ [][C37_Step]_vars

\* the second session of a host has reached EXIT
C37_Witness ==
    /\ pc = "run"
    /\ sessions = MaxReconnect
    /\ fsm.cur = "EXIT"
    /\ last.op = "FLASH"
    /\ last.pre = "FLASH"
    /\ flashing.flashed_bytes = flashing.fw_size


-----------------------------------------------------------------------------
(* The receive parser behind a driver FIFO deep enough to hold two complete *)
(* frames.                                                                  *)

MaxFifo == 16

\* one more byte reaches the receive driver
RxFifo ==
    /\ parser.rx < MaxFifo
    /\ parser' = [parser EXCEPT !.rx = @ + 1]
    /\ UNCHANGED loader_vars

SpecFifo == InitParser /\ [][RxFifo \/ Tick \/ ParseHndl]_vars

\* one call of boot_parse_hndl
C38_Handle == parser' \in boot_parse_hndl(parser)

\* 0 <= buf.idx < BOOT_CFG_RX_BUF_SIZE
C38_Index == parser.idx \in 0..(RxBufSize - 1)

\* the next byte completes a frame only at buf.idx = header size + length
C38_OkAtLength ==
    parser.rx > 0 =>
        LET Q == boot_buf_idx_increment([parser EXCEPT !.rx = @ - 1, !.elapsed = 0])
        IN  Q.status = eBOOT_OK =>
                \A R \in boot_parse(Q) :
                    R.status = eBOOT_OK =>
                        /\ R.idx = BOOT_HEADER_SIZE + R.length
                        /\ R.idx = parser.idx + 1

\* a handle step that reports a frame has taken the bytes of one frame from
\* the FIFO and no more, and a complete frame left behind is reported by a
\* later step
C38_Step ==
    (C38_Handle /\ parser'.status = eBOOT_OK) =>
        /\ parser'.idx = 0
        /\ parser'.mode = "IDLE"
        /\ parser.rx - parser'.rx >= 1
        /\ parser.idx + (parser.rx - parser'.rx) <= RxBufSize - 1
        /\ parser.mode = "RCV_PAYLOAD" =>
              parser.idx + (parser.rx - parser'.rx) = BOOT_HEADER_SIZE + parser.length
        /\ parser'.rx >= BOOT_HEADER_SIZE =>
              \E P \in boot_parse_hndl(parser') :
                  /\ P.status = eBOOT_OK
                  /\ parser'.rx - P.rx = BOOT_HEADER_SIZE

-----------------------------------------------------------------------------
(* The inter-byte timeout on the 32-bit millisecond counter.  A tick value  *)
(* is kept as its two 16-bit halves, so that the subtraction of             *)
(* boot_timeout_check is carried out modulo 2^32 as the code does.          *)

Half == 2^16

Tick32(hi, lo) == [hi |-> hi, lo |-> lo]

\* (uint32_t) ( t + n ) for a small n
Add32(t, n) ==
    Tick32((t.hi + ((t.lo + n) \div Half)) % Half, (t.lo + n) % Half)

\* faulty variant of Sub32: a counter below the stamp reads as no time gone
\* (C40 detects it)
sub32_no_wrap(a, b) ==
    IF a.hi < b.hi \/ (a.hi = b.hi /\ a.lo < b.lo)
    THEN Tick32(0, 0)
    ELSE Tick32(a.hi - b.hi - (IF a.lo < b.lo THEN 1 ELSE 0),
                (a.lo + Half - b.lo) % Half)

\* (uint32_t) ( a - b )
Sub32(a, b) ==
    Tick32((a.hi + Half - b.hi - (IF a.lo < b.lo THEN 1 ELSE 0)) % Half,
           (a.lo + Half - b.lo) % Half)

\* a >= n for a small n
Geq32(a, n) == a.hi > 0 \/ a.lo >= n

\* boot_timeout_check on the counter: the flag it returns
timeout_check_ticks(mode, systick, last_timestamp) ==
    mode # "IDLE" /\ Geq32(Sub32(systick, last_timestamp), BOOT_COM_IDLE_TIMEOUT_MS)

\* how far before the wrap of the counter a byte is stamped
WrapWindow == 25

\* the stamps of the last byte: up to WrapWindow ticks before the wrap, at
\* the wrap, and in the middle of the range
Stamps ==
    { Tick32(Half - 1, Half - k) : k \in 1..WrapWindow }
        \cup { Tick32(0, 0), Tick32(1, Half - 1), Tick32(Half \div 2, 7) }

\* the gaps between the stamp and the check
TickGaps == 0..(2 * BOOT_COM_IDLE_TIMEOUT_MS)

\* a byte is stamped (boot_parse_hndl), gap milliseconds pass, and
\* boot_timeout_check reads the counter
TimeoutCheck ==
    /\ pc = "reset"
    /\ pc' = "tick"
    /\ \E stamp \in Stamps, gap \in TickGaps, mode \in { "IDLE", "RCV_HEADER", "RCV_PAYLOAD" } :
        LET systick == Add32(stamp, gap)
        IN  last' = [op |-> "TIMEOUT", mode |-> mode, stamp |-> stamp, gap |-> gap,
                     systick |-> systick,
                     timeout |-> timeout_check_ticks(mode, systick, stamp)]
    /\ UNCHANGED << cfg, flash, shm, fsm, try_to_leave, flashing, wait, tx, sessions, jumped,
                    parser, stalled, resets >>

SpecTicks == InitParser /\ [][TimeoutCheck]_vars

\* the counter wrapped between the stamp and the check
C40_Wrapped == last.stamp.hi = Half - 1 /\ last.systick.hi = 0

\* C40: the inter-byte timeout is decided on 32-bit ticks modulo 2^32: with
\* the parser at work, a gap shorter than IDLE_TIMEOUT_MS does not reset the
\* parser and a gap of IDLE_TIMEOUT_MS or more does, also when the
\* millisecond counter wraps between the last byte and the check.
C40_TimeoutAcrossWrap ==
    pc = "tick" =>
        /\ last.timeout <=> (last.mode # "IDLE" /\ last.gap >= BOOT_COM_IDLE_TIMEOUT_MS)
        /\ last.timeout = boot_timeout_check([ParserReset EXCEPT !.mode = last.mode,
                                                                 !.elapsed = last.gap])

\* a gap of the timeout that spans the wrap has reset the parser
C40_Witness ==
    /\ pc = "tick"
    /\ C40_Wrapped
    /\ last.gap = BOOT_COM_IDLE_TIMEOUT_MS
    /\ last.timeout


-----------------------------------------------------------------------------
(* The framing layer byte by byte: the boot_com_send_* functions build the  *)
(* header, compute its CRC and hand header and payload to the driver; the   *)
(* stream is fed to the parser one byte at a time.  The frames are far      *)
(* shorter than BOOT_CFG_RX_BUF_SIZE, so the buffer never fills here.       *)

BOOT_COM_MSG_PREAMBLE_VAL == 1968

CmdByte(command) ==
    CASE command = "CONNECT" -> 16  [] command = "CONNECT_RSP" -> 17
      [] command = "PREPARE" -> 32  [] command = "PREPARE_RSP" -> 33
      [] command = "FLASH"   -> 48  [] command = "FLASH_RSP"   -> 49
      [] command = "EXIT"    -> 64  [] command = "EXIT_RSP"    -> 65
      [] command = "INFO"    -> 160 [] command = "INFO_RSP"    -> 161

LE16(v) == << v % 256, v \div 256 >>

\* boot_header_t as the bytes of its eight-byte representation
HeaderU(h) ==
    LE16(h.preamble) \o LE16(h.length) \o << h.source, h.command, h.status, h.crc >>

\* boot_header_t read back from the first eight bytes of the buffer
HeaderAt(mem) ==
    [ preamble |-> mem[1] + 256 * mem[2], length |-> mem[3] + 256 * mem[4],
      source |-> mem[5], command |-> mem[6], status |-> mem[7], crc |-> mem[8] ]

\* a pointer to bytes: NULL or the bytes it points to
NULL == [null |-> TRUE, bytes |-> << >>]

Ptr(bytes) == [null |-> FALSE, bytes |-> bytes]

boot_com_calc_crc(p_data, size) == boot_calc_crc(SubSeq(p_data, 1, size))

boot_com_calc_crc_packet(p_header, p_payload) ==
    LET head == Xor8(Xor8(Xor8(boot_com_calc_crc(LE16(p_header.length), 2),
                               boot_com_calc_crc(<< p_header.source >>, 1)),
                          boot_com_calc_crc(<< p_header.command >>, 1)),
                     boot_com_calc_crc(<< p_header.status >>, 1))
    IN  IF ~p_payload.null
        THEN Xor8(head, boot_com_calc_crc(p_payload.bytes, p_header.length))
        ELSE head

\* what a boot_com_send_* function hands to boot_if_transmit: the header
\* with length, source, command and status as assembled, its CRC computed
\* over p_payload, followed by the bytes sent
Transmit(length, source, command, status, p_payload, sent) ==
    LET header == [ preamble |-> BOOT_COM_MSG_PREAMBLE_VAL, length |-> length,
                    source |-> source, command |-> CmdByte(command), status |-> status,
                    crc |-> 0 ]
    IN  [ fn |-> command, header |-> header, payload |-> sent,
          stream |-> HeaderU([header EXCEPT
                                !.crc = boot_com_calc_crc_packet(header, p_payload)]) \o sent ]

\* the requests leave header.field.status as the initializer { .U = 0U } left
\* it: the bytes of the union behind its first are zero in the builds known,
\* and unspecified by the language (unset stands for them)
boot_com_send_connect(unset) ==
    Transmit(0, eCOM_MSG_SRC_BOOT_MANAGER, "CONNECT", unset, NULL, << >>)

boot_com_send_prepare(unset, fw_size, fw_ver, hw_ver) ==
    LET payload == LE32(fw_size) \o LE32(fw_ver) \o LE32(hw_ver)
    IN  Transmit(0, eCOM_MSG_SRC_BOOT_MANAGER, "PREPARE", unset, Ptr(payload), payload)

boot_com_send_flash(unset, p_data, size) ==
    Transmit(size, eCOM_MSG_SRC_BOOT_MANAGER, "FLASH", unset, Ptr(p_data), SubSeq(p_data, 1, size))

boot_com_send_exit(unset) ==
    Transmit(0, eCOM_MSG_SRC_BOOT_MANAGER, "EXIT", unset, NULL, << >>)

boot_com_send_info(unset) ==
    Transmit(0, eCOM_MSG_SRC_BOOT_MANAGER, "INFO", unset, NULL, << >>)

\* boot_com_send_connect_rsp, _prepare_rsp, _flash_rsp, _exit_rsp
boot_com_send_rsp(command, msg_status) ==
    Transmit(0, eCOM_MSG_SRC_BOOTLOADER, command, msg_status, NULL, << >>)

boot_com_send_info_rsp(boot_ver, msg_status) ==
    Transmit(4, eCOM_MSG_SRC_BOOTLOADER, "INFO_RSP", msg_status, Ptr(LE32(boot_ver)),
             LE32(boot_ver))

MsgStatuses ==
    { eBOOT_MSG_OK, eBOOT_MSG_ERROR_VALIDATION, eBOOT_MSG_ERROR_INVALID_REQ,
      eBOOT_MSG_ERROR_FLASH_WRITE, eBOOT_MSG_ERROR_FLASH_ERASE, eBOOT_MSG_ERROR_FW_SIZE,
      eBOOT_MSG_ERROR_FW_VER, eBOOT_MSG_ERROR_HW_VER, eBOOT_MSG_ERROR_SIGNATURE }

\* the longest chunk a FLASH request of this section carries
MaxChunk == 3

ChunkBytes == { 0, 17, UINT8_MAX }

SentChunks == UNION { [1..n -> ChunkBytes] : n \in 0..MaxChunk }

Unset == { 0, UINT8_MAX }

Versions == { 0, BOOT_SW_VER, FW_VER_LIM }

\* every frame the send functions produce over the arguments above
SentFrames ==
    { boot_com_send_connect(u) : u \in Unset }
        \cup { boot_com_send_prepare(u, s, v, w) :
               u \in Unset, s \in { 0, MaxApp }, v \in { FW_VER_LIM }, w \in { HW_VER_LIM } }
        \cup { boot_com_send_flash(u, d, Len(d)) : u \in Unset, d \in SentChunks }
        \cup { boot_com_send_exit(u) : u \in Unset }
        \cup { boot_com_send_info(u) : u \in Unset }
        \cup { boot_com_send_rsp(r, st) :
               r \in { "CONNECT_RSP", "PREPARE_RSP", "FLASH_RSP", "EXIT_RSP" },
               st \in MsgStatuses }
        \cup { boot_com_send_info_rsp(v, st) : v \in Versions, st \in MsgStatuses }

\* the parser over the bytes of its buffer
ByteParserReset == [mode |-> "IDLE", mem |-> << >>, status |-> eBOOT_WAR_EMPTY]

CrcStatus(crc_calc, crc_msg) == IF crc_calc = crc_msg THEN eBOOT_OK ELSE eBOOT_ERROR_CRC

\* boot_parse with buf.mem and buf.idx = Len(mem)
ParseBytes(P) ==
    CASE P.mode = "IDLE" -> [P EXCEPT !.mode = "RCV_HEADER", !.status = eBOOT_WAR_EMPTY]
      [] P.mode = "RCV_HEADER" ->
            IF Len(P.mem) = BOOT_HEADER_SIZE
            THEN LET p_header == HeaderAt(P.mem)
                 IN  IF p_header.preamble = BOOT_COM_MSG_PREAMBLE_VAL
                     THEN IF p_header.length = 0
                          THEN [P EXCEPT !.status =
                                  CrcStatus(boot_com_calc_crc_packet(p_header, NULL),
                                            p_header.crc)]
                          ELSE [P EXCEPT !.mode = "RCV_PAYLOAD", !.status = eBOOT_WAR_EMPTY]
                     ELSE [P EXCEPT !.status = eBOOT_WAR_EMPTY]
            ELSE [P EXCEPT !.status = eBOOT_WAR_EMPTY]
      [] P.mode = "RCV_PAYLOAD" ->
            LET p_header == HeaderAt(P.mem)
            IN  IF Len(P.mem) = p_header.length + BOOT_HEADER_SIZE
                THEN [P EXCEPT !.status =
                        CrcStatus(boot_com_calc_crc_packet(
                                      p_header,
                                      Ptr(SubSeq(P.mem, BOOT_HEADER_SIZE + 1, Len(P.mem)))),
                                  p_header.crc)]
                ELSE [P EXCEPT !.status = eBOOT_WAR_EMPTY]

\* the while loop of boot_parse_hndl over stream[i..]: what it reports and
\* how many bytes it has taken when it stops
RECURSIVE FeedBytes(_, _, _)
FeedBytes(P, stream, i) ==
    IF i > Len(stream)
    THEN [status |-> P.status, header |-> HeaderAt(P.mem \o [k \in 1..BOOT_HEADER_SIZE |-> 0]),
          payload |-> << >>, taken |-> i - 1]
    ELSE LET Q == ParseBytes([P EXCEPT !.mem = Append(@, stream[i])])
         IN  IF Q.status \in { eBOOT_OK, eBOOT_ERROR_CRC }
             THEN [status |-> Q.status, header |-> HeaderAt(Q.mem),
                   payload |-> SubSeq(Q.mem, BOOT_HEADER_SIZE + 1, Len(Q.mem)),
                   taken |-> i]
             ELSE FeedBytes(Q, stream, i + 1)

\* a frame is sent and its bytes are fed to a parser at rest
RoundTrip ==
    /\ pc = "reset"
    /\ pc' = "frame"
    /\ \E f \in SentFrames :
        last' = [op |-> "FRAME", sent |-> f, rcv |-> FeedBytes(ByteParserReset, f.stream, 1)]
    /\ UNCHANGED << cfg, flash, shm, fsm, try_to_leave, flashing, wait, tx, sessions, jumped,
                    parser, stalled, resets >>

SpecFrame == InitParser /\ [][RoundTrip]_vars

\* C39: the byte stream produced by any boot_com_send_* function, fed byte
\* by byte to the parser, is reported OK and yields the same command, status
\* and payload; the length field of the header equals the number of payload
\* bytes transmitted, all of them covered by the CRC.
\* Refuted: boot_com_send_prepare transmits twelve payload bytes behind a
\* header whose length field is 0.
C39_RoundTrip ==
    pc = "frame" =>
        /\ last.rcv.status = eBOOT_OK
        /\ last.rcv.taken = Len(last.sent.stream)
        /\ last.rcv.header.command = last.sent.header.command
        /\ last.rcv.header.status = last.sent.header.status
        /\ last.rcv.payload = last.sent.payload
        /\ last.sent.header.length = Len(last.sent.payload)
        /\ last.rcv.header.crc =
              boot_com_calc_crc_packet(last.sent.header,
                                       IF last.sent.payload = << >> THEN NULL
                                       ELSE Ptr(last.sent.payload))

====
